---------------------------- MODULE Spec2Model ----------------------------
(***************************************************************************)
(* State-machine model of the SQL table editing engine (SQLWorker in       *)
(* src/sqlworker.cpp): connection lifecycle, schema catalog, grid          *)
(* materializer (LoadTableData) and table synchronizer                     *)
(* (UpdateCompleteTable), running against a transactional SQLite file;     *)
(* of the window that drives it (MainWindow in src/mainwindow.cpp); and    *)
(* of several engine objects sharing the connection registry of one        *)
(* process.                                                                *)
(*                                                                         *)
(* Texts that the storage engine converts (cell values) are sequences of   *)
(* one-character strings, so that the type-affinity conversion of the      *)
(* engine is computed and not assumed.  Identifiers (table names, column   *)
(* names, file paths) are strings.                                         *)
(***************************************************************************)
EXTENDS Integers, Sequences, FiniteSets, TLC

(***************************************************************************)
(* Bounds of the model.                                                    *)
(***************************************************************************)
\* Largest number of rows of a grid handed to the engine.
MaxRows == 2
\* Largest number of columns of a grid that carries no header items.
MaxCols == 3
\* Largest number of rows AddRowToTable lets a table grow to.
MaxStored == 2
\* Largest number of rows the window's add mode lets the grid grow to.
MaxGridRows == 3
\* Number of SQLWorker objects constructed in the process.
MaxInstances == 2

(***************************************************************************)
(* The database file "a.db" that the engine is pointed at.                 *)
(*   CREATE TABLE users(id INTEGER UNIQUE, name TEXT);                     *)
(*   CREATE TABLE notes("order" TEXT);                                     *)
(*   CREATE TABLE sqlitelog(k TEXT);                                       *)
(*   CREATE TABLE "order"(k TEXT);                                         *)
(*   sqlite_sequence(name, seq) is the engine's own bookkeeping table      *)
(*   (present because another table of the file uses AUTOINCREMENT).       *)
(***************************************************************************)
GoodPath == "a.db"
BadPath  == "bad.db"
Paths    == {"", GoodPath, BadPath}

UserTable   == "users"
NotesTable  == "notes"
SystemTable == "sqlite_sequence"
LogTable    == "sqlitelog"
OrderTable  == "order"
\* Every table stored in the file, in sqlite_master order.
FileTables  == <<UserTable, NotesTable, SystemTable, LogTable, OrderTable>>
\* The characters of each table name of the file.
Spelling(t) ==
    CASE t = UserTable   -> <<"u", "s", "e", "r", "s">>
      [] t = NotesTable  -> <<"n", "o", "t", "e", "s">>
      [] t = SystemTable -> <<"s", "q", "l", "i", "t", "e", "_",
                              "s", "e", "q", "u", "e", "n", "c", "e">>
      [] t = LogTable    -> <<"s", "q", "l", "i", "t", "e", "l", "o", "g">>
      [] t = OrderTable  -> <<"o", "r", "d", "e", "r">>
      [] OTHER           -> <<>>
\* Table names handed to the engine by its callers.
TableNames  == {"", UserTable, NotesTable, "ghost"}

SchemaColumns(t) ==
    CASE t = UserTable   -> <<"id", "name">>
      [] t = NotesTable  -> <<"order">>
      [] t = SystemTable -> <<"name", "seq">>
      [] t = LogTable    -> <<"k">>
      [] t = OrderTable  -> <<"k">>
      [] OTHER           -> <<>>

SchemaAffinity(t) ==
    CASE t = UserTable   -> <<"INTEGER", "TEXT">>
      [] t = NotesTable  -> <<"TEXT">>
      [] t = SystemTable -> <<"NONE", "NONE">>
      [] t = LogTable    -> <<"TEXT">>
      [] t = OrderTable  -> <<"TEXT">>
      [] OTHER           -> <<>>

\* Words the engine's SQL grammar reserves: a statement that names a column
\* or a table so, unquoted, does not compile.
ReservedWords == {"order"}

\* A statement built with .arg(t), the name of the table put in unquoted,
\* compiles as far as that name goes.
NameCompiles(t) == t \notin ReservedWords

\* Positions of the columns of t that carry a UNIQUE constraint.
SchemaUnique(t) == IF t = UserTable THEN {1} ELSE {}

TableExists(t) == \E i \in 1..Len(FileTables) : FileTables[i] = t

(***************************************************************************)
(* Values.  A stored value is NULL, an integer or a text; s is its         *)
(* textual rendering (QVariant::toString).                                 *)
(***************************************************************************)
Digits == {"0", "1", "2", "3", "4", "5", "6", "7", "8", "9"}

NullValue    == [t |-> "null", s |-> <<>>]
IntValue(s)  == [t |-> "int",  s |-> s]
TextValue(s) == [t |-> "text", s |-> s]

RECURSIVE StripZeros(_)
\* Canonical decimal digits of a digit string: leading zeros dropped.
StripZeros(s) ==
    IF Len(s) > 1 /\ Head(s) = "0" THEN StripZeros(Tail(s)) ELSE s

IsIntegerText(s) == Len(s) > 0 /\ \A i \in 1..Len(s) : s[i] \in Digits

(***************************************************************************)
(* Storage engine (SQLite behind QSqlQuery): what binding, storing and     *)
(* reading a value does.                                                   *)
(***************************************************************************)
\* Type affinity of the column applied to a bound value on INSERT.
ApplyAffinity(aff, v) ==
    IF v.t = "text" /\ aff = "INTEGER" /\ IsIntegerText(v.s)
    THEN IntValue(StripZeros(v.s))
    ELSE v

Range(f) == {f[i] : i \in DOMAIN f}

\* Position of name c in the sequence cols (0 when absent).
IndexOf(cols, c) ==
    IF \E j \in 1..Len(cols) : cols[j] = c
    THEN CHOOSE j \in 1..Len(cols) :
            cols[j] = c /\ \A k \in 1..(j - 1) : cols[k] # c
    ELSE 0

\* The statement "INSERT INTO t (columns) VALUES (?, ...)" compiles.
InsertCompiles(t, columns) ==
    /\ TableExists(t)
    /\ NameCompiles(t)
    /\ Len(columns) > 0
    /\ \A j \in 1..Len(columns) :
          /\ columns[j] \in Range(SchemaColumns(t))
          /\ columns[j] \notin ReservedWords

\* The row that executing the INSERT with the bound values stores.
StoredRow(t, columns, bound) ==
    [i \in 1..Len(SchemaColumns(t)) |->
        IF IndexOf(columns, SchemaColumns(t)[i]) = 0
        THEN NullValue
        ELSE ApplyAffinity(SchemaAffinity(t)[i],
                           bound[IndexOf(columns, SchemaColumns(t)[i])])]

\* A UNIQUE column of t already holds the new row's (non-NULL) value.
ConstraintViolated(t, rows, new) ==
    \E i \in SchemaUnique(t) : \E r \in 1..Len(rows) :
        new[i].t # "null" /\ rows[r][i] = new[i]

(***************************************************************************)
(* The grid (QTableWidget): header items and cell items, either of which   *)
(* may be missing.                                                         *)
(***************************************************************************)
NoHeaderItem     == [has |-> FALSE, text |-> ""]
HeaderItem(name) == [has |-> TRUE, text |-> name]

NoItem       == [item |-> FALSE, null |-> TRUE,  s |-> <<>>]
Item(s)      == [item |-> TRUE,  null |-> FALSE, s |-> s]
NullTextItem == [item |-> TRUE,  null |-> TRUE,  s |-> <<>>]

columnCount(g) == Len(g.headers)
rowCount(g)    == Len(g.rows)

EmptyGrid == [headers |-> <<>>, rows |-> <<>>]

\* Text of each cell of a grid (a missing item and a null text read "").
GridTexts(g) == [r \in 1..rowCount(g) |->
                    [c \in 1..Len(g.rows[r]) |-> g.rows[r][c].s]]

\* Text of each stored value of a table's rows.
RowTexts(rows) == [r \in 1..Len(rows) |->
                    [c \in 1..Len(rows[r]) |-> rows[r][c].s]]

(***************************************************************************)
(* Grids handed to the engine by its caller.                               *)
(***************************************************************************)
GridHeaderRows ==
    {<<>>,
     <<HeaderItem("id"), HeaderItem("name")>>,
     <<HeaderItem("name"), HeaderItem("id")>>,
     <<HeaderItem("id"), HeaderItem("bogus")>>,
     <<NoHeaderItem, HeaderItem("name")>>}
    \cup {[i \in 1..n |-> NoHeaderItem] : n \in 1..MaxCols}

RowTemplates == {"A", "B"}

\* Cell j of a row built after template k.
TemplateCell(k, j) ==
    IF k = "A"
    THEN IF j = 1 THEN Item(<<"0", "1">>) ELSE Item(<<"a">>)
    ELSE IF j = 1 THEN NoItem ELSE Item(<<"0", "1">>)

Grids ==
    UNION {{[headers |-> h,
             rows    |-> [r \in 1..n |->
                            [j \in 1..Len(h) |-> TemplateCell(ks[r], j)]]]
              : ks \in [1..n -> RowTemplates]}
           : <<h, n>> \in GridHeaderRows \X (0..MaxRows)}

\* Content of the file when the program starts.
InitialContent ==
    [t \in Range(FileTables) |->
        CASE t = UserTable ->
                << <<IntValue(<<"7">>), TextValue(<<"a">>)>>,
                   <<IntValue(<<"8">>), TextValue(<<>>)>> >>
          [] t = NotesTable ->
                << <<TextValue(<<"a">>)>> >>
          [] t = SystemTable ->
                << <<TextValue(<<"a">>), IntValue(<<"5">>)>> >>
          [] OTHER -> << >>]

(***************************************************************************)
(* State.                                                                  *)
(***************************************************************************)
VARIABLES
    FileLoaded,           \* SQLWorker::FileLoaded
    CurrentFilePath,      \* SQLWorker::CurrentFilePath
    AvailableTableNames,  \* SQLWorker::AvailableTableNames
    dbOpen,               \* SqlDatabase.isOpen()
    registered,           \* QSqlDatabase::contains(ConnectionName)
    openConnections,      \* connections of this instance that are open
    alive,                \* the SQLWorker object has not been destroyed
    durable,              \* committed content of the file, per table
    db,                   \* content as the connection sees it
    inTxn,                \* the connection has an open transaction
    pc,                   \* position of the running UpdateCompleteTable
    callTable,            \* tableName of the running UpdateCompleteTable
    columnNames,          \* _columnNames of the running UpdateCompleteTable
    row,                  \* _row of the running UpdateCompleteTable
    grid,                 \* the QTableWidget handed to the engine
    gridBefore,           \* the widget's content when the last call started
    pre,                  \* durable content when the last commit call started
    last,                 \* the last call: operation, table, outcome
    log,                  \* storage operations issued by the last call
    WindowFilePath,       \* MainWindow::CurrentFilePath
    CurrentTableName,     \* MainWindow::CurrentTableName
    IsAddMode,            \* MainWindow::IsAddMode
    IsDeleteMode,         \* MainWindow::IsDeleteMode
    IsEditMode,           \* MainWindow::IsEditMode
    HasUnsavedChanges,    \* MainWindow::HasUnsavedChanges
    comboItems,           \* items of TableComboBox
    comboIndex,           \* TableComboBox->currentIndex() + 1 (0: none)
    buttonsEnabled,       \* Add, Delete, Edit, Update, Cancel are enabled
    editTriggers,         \* DataTable->editTriggers()
    uiPc,                 \* position of the running MainWindow handler
    uiLast,               \* the last handler that ran and how it ended
    atClick,              \* flags and grid when Update was last clicked
    gridTable,            \* table whose load last filled the grid
    baseline,             \* the grid as last loaded, cleared or committed
    workers,              \* the SQLWorker objects of the process
    registry,             \* QSqlDatabase's connections: name -> owner
    issued,               \* values QUuid::createUuid() has returned
    actor                 \* the SQLWorker object that acted last

engineVars == <<FileLoaded, CurrentFilePath, AvailableTableNames, dbOpen,
                registered, openConnections, alive, durable, db, inTxn, pc,
                callTable, columnNames, row, grid, gridBefore, pre, last,
                log>>

modeVars   == <<IsAddMode, IsDeleteMode, IsEditMode>>
windowVars == <<WindowFilePath, CurrentTableName, modeVars,
                HasUnsavedChanges, comboItems, comboIndex, buttonsEnabled,
                editTriggers, uiPc, uiLast, atClick, gridTable, baseline>>

instanceVars == <<workers, registry, issued, actor>>

vars == <<engineVars, windowVars, instanceVars>>

workerVars  == <<FileLoaded, CurrentFilePath, AvailableTableNames, dbOpen,
                 registered, openConnections, alive>>
storageVars == <<durable, db, inTxn>>
localVars   == <<callTable, columnNames, row>>

Outcome(op, t, widget, kind, r, after) ==
    [op |-> op, table |-> t, widget |-> widget, kind |-> kind, row |-> r,
     after |-> after]

Entry(op, t, columns, values) ==
    [op |-> op, table |-> t, columns |-> columns, values |-> values]

\* The SQLWorker objects of the process and the values createUuid can
\* return.
Instances == 1..MaxInstances
Uuids     == 1..(MaxInstances + 1)

\* Mutant: every instance takes the same connection name.
GenerateConnectionNameShared(uuid) == <<"SQLWorker_Connection_", 1>>

\* SQLWorker::GenerateConnectionName: the prefix followed by the UUID.
GenerateConnectionName(uuid) == <<"SQLWorker_Connection_", uuid>>

ConnectionNames == {GenerateConnectionName(u) : u \in Uuids}

\* An instance that has not been constructed, and one just constructed.
NoWorker == [state |-> "none", ConnectionName |-> <<>>, isOpen |-> FALSE,
             FileLoaded |-> FALSE]
NewWorker(name) == [state |-> "alive", ConnectionName |-> name,
                    isOpen |-> FALSE, FileLoaded |-> FALSE]

\* The flags of the window and its grid, as Update finds them.
Snapshot == [add |-> IsAddMode, del |-> IsDeleteMode, edit |-> IsEditMode,
             unsaved |-> HasUnsavedChanges, triggers |-> editTriggers,
             grid |-> grid]

Init ==
    /\ WindowFilePath = ""
    /\ CurrentTableName = ""
    /\ IsAddMode = FALSE
    /\ IsDeleteMode = FALSE
    /\ IsEditMode = FALSE
    /\ HasUnsavedChanges = FALSE
    /\ comboItems = <<>>
    /\ comboIndex = 0
    /\ buttonsEnabled = FALSE
    /\ editTriggers = "NoEditTriggers"
    /\ uiPc = "Ready"
    /\ uiLast = "None"
    /\ atClick = [add |-> FALSE, del |-> FALSE, edit |-> FALSE,
                  unsaved |-> FALSE, triggers |-> "NoEditTriggers",
                  grid |-> EmptyGrid]
    /\ gridTable = ""
    /\ baseline = EmptyGrid
    /\ workers = [i \in Instances |-> NoWorker]
    /\ registry = [n \in ConnectionNames |-> 0]
    /\ issued = {}
    /\ actor = 0
    /\ FileLoaded = FALSE
    /\ CurrentFilePath = ""
    /\ AvailableTableNames = <<>>
    /\ dbOpen = FALSE
    /\ registered = FALSE
    /\ openConnections = 0
    /\ alive = TRUE
    /\ durable = InitialContent
    /\ db = InitialContent
    /\ inTxn = FALSE
    /\ pc = "Idle"
    /\ callTable = ""
    /\ columnNames = <<>>
    /\ row = 0
    /\ grid = EmptyGrid
    /\ gridBefore = EmptyGrid
    /\ pre = InitialContent
    /\ last = Outcome("None", "", FALSE, "None", -1, "None")
    /\ log = <<>>

(***************************************************************************)
(* Connection lifecycle: SQLWorker::LoadSQLFile.                           *)
(***************************************************************************)
\* The pattern of GET_TABLES_QUERY, LIKE 'sqlite_%': the letters sqlite
\* (LIKE does not tell upper from lower case; the names of the file are in
\* lower case), then any one character, then anything.
LikeSystemPattern(chars) ==
    /\ Len(chars) >= 7
    /\ SubSeq(chars, 1, 6) = <<"s", "q", "l", "i", "t", "e">>

\* The names GET_TABLES_QUERY leaves out.
IsSystemName(t) == LikeSystemPattern(Spelling(t))

\* Mutant: a metadata query that fails leaves the list as it was.
ParseSQLStructureKeepsList(fault) ==
    IF fault THEN AvailableTableNames
    ELSE SelectSeq(FileTables, LAMBDA t : ~IsSystemName(t) /\ t # "")

\* ParseSQLStructure: the names the metadata query yields, or none when the
\* query fails.
ParseSQLStructure(fault) ==
    IF fault THEN <<>>
    ELSE SelectSeq(FileTables, LAMBDA t : ~IsSystemName(t) /\ t # "")

\* ValidateDatabaseConnection: the connection is open and "SELECT 1" runs.
ValidateDatabaseConnection(open, fault) == open /\ ~fault

\* QSqlDatabase::open on the file at path.
OpenSucceeds(path, fault) == path = GoodPath /\ ~fault

\* Mutant: the connection that is open is not closed.
ClosePreviousSkipped(n) == n

\* "if (SqlDatabase.isOpen()) SqlDatabase.close()": the number of open
\* connections left of n.
ClosePrevious(n) == IF dbOpen THEN n - 1 ELSE n

\* The statements that tear the previous connection down and register the
\* new one.
Reconnect ==
    (IF dbOpen THEN <<Entry("CLOSE", "", <<>>, <<>>)>> ELSE <<>>)
    \o (IF registered THEN <<Entry("REMOVE", "", <<>>, <<>>)>> ELSE <<>>)
    \o <<Entry("ADD", "", <<>>, <<>>), Entry("OPEN", "", <<>>, <<>>)>>

\* SQLWorker::LoadSQLFile.  The validation statement and the metadata
\* statement are each executed twice: once by the QSqlQuery constructor
\* that is given the statement's text, whose result is not looked at, and
\* once by exec(), whose result decides (validateFault, parseFault).
LoadSQLFile(path, openFault, validateFault, parseFault) ==
    /\ pc = "Idle"
    /\ alive
    /\ gridBefore' = grid
    /\ UNCHANGED <<durable, inTxn, pc, localVars, grid, pre, alive>>
    /\ IF path = ""
       THEN /\ last' = Outcome("Open", "", FALSE, "InvalidRequest", -1, "None")
            /\ log' = <<>>
            /\ UNCHANGED <<FileLoaded, CurrentFilePath, AvailableTableNames,
                           dbOpen, registered, openConnections, db>>
       ELSE /\ registered' = TRUE
            /\ db' = durable
            /\ IF ~OpenSucceeds(path, openFault)
               THEN /\ dbOpen' = FALSE
                    /\ openConnections' = ClosePrevious(openConnections)
                    /\ last' = Outcome("Open", "", FALSE, "OpenFailed", -1, "None")
                    /\ log' = Reconnect
                    /\ UNCHANGED <<FileLoaded, CurrentFilePath,
                                   AvailableTableNames>>
               ELSE IF ~ValidateDatabaseConnection(TRUE, validateFault)
               THEN /\ dbOpen' = FALSE
                    /\ openConnections' = ClosePrevious(openConnections)
                    /\ last' = Outcome("Open", "", FALSE, "InvalidDatabase", -1,
                                       "None")
                    /\ log' = Reconnect \o
                              <<Entry("SELECT1", "", <<>>, <<>>),
                                Entry("SELECT1", "", <<>>, <<>>),
                                Entry("CLOSE", "", <<>>, <<>>)>>
                    /\ UNCHANGED <<FileLoaded, CurrentFilePath,
                                   AvailableTableNames>>
               ELSE /\ dbOpen' = TRUE
                    /\ openConnections' = ClosePrevious(openConnections) + 1
                    /\ CurrentFilePath' = path
                    /\ AvailableTableNames' = ParseSQLStructure(parseFault)
                    /\ FileLoaded' = TRUE
                    /\ last' = Outcome("Open", "", FALSE, "Ok", -1, "None")
                    /\ log' = Reconnect \o
                              <<Entry("SELECT1", "", <<>>, <<>>),
                                Entry("SELECT1", "", <<>>, <<>>),
                                Entry("TABLES", "", <<>>, <<>>),
                                Entry(IF parseFault THEN "TABLES_ERROR"
                                      ELSE "TABLES", "", <<>>, <<>>)>>

\* SQLWorker::~SQLWorker: the connection is closed if open and its name
\* removed from the registry if present.
Destroy ==
    /\ pc = "Idle"
    /\ alive
    /\ alive' = FALSE
    /\ dbOpen' = FALSE
    /\ registered' = FALSE
    /\ openConnections' = ClosePrevious(openConnections)
    /\ db' = durable
    /\ last' = Outcome("Destroy", "", FALSE, "Ok", -1, "None")
    /\ log' = (IF dbOpen THEN <<Entry("CLOSE", "", <<>>, <<>>)>> ELSE <<>>)
              \o (IF registered THEN <<Entry("REMOVE", "", <<>>, <<>>)>>
                  ELSE <<>>)
    /\ gridBefore' = grid
    /\ UNCHANGED <<FileLoaded, CurrentFilePath, AvailableTableNames, durable,
                   inTxn, pc, localVars, grid, pre>>

\* SQLWorker::GetTableNames.
GetTableNames == AvailableTableNames

(***************************************************************************)
(* Schema catalog: SQLWorker::GetTableColumns.                             *)
(***************************************************************************)
\* "PRAGMA table_info(t)": the columns of t, none for an unknown table, a
\* statement that does not compile or a failed query.
GetTableColumns(t, fault) ==
    IF fault \/ ~TableExists(t) \/ ~NameCompiles(t) THEN <<>>
    ELSE SchemaColumns(t)

(***************************************************************************)
(* Grid materializer: SQLWorker::LoadTableData.                            *)
(***************************************************************************)
\* The item made from a value read by the query: QVariant::toString.
RenderCell(v) == IF v.t = "null" THEN NullTextItem ELSE Item(v.s)

\* Mutant: the final setRowCount is missing, the cleared rows stay below the
\* loaded ones.
MaterializedGridNoTruncate(old, cols, rows) ==
    LET cleared  == [r \in 1..rowCount(old) |->
                        [c \in 1..Len(cols) |-> NoItem]]
        inserted == [r \in 1..Len(rows) |->
                        [c \in 1..Len(cols) |-> RenderCell(rows[r][c])]]
    IN  [headers |-> [c \in 1..Len(cols) |-> HeaderItem(cols[c])],
         rows    |-> inserted \o cleared]

\* Mutant: the columns are set up only when the query yields a row.
MaterializedGridKeepsColumns(old, cols, rows) ==
    LET inserted == [r \in 1..Len(rows) |->
                        [c \in 1..Len(cols) |-> RenderCell(rows[r][c])]]
    IN  [headers |-> IF rows = <<>> THEN old.headers
                     ELSE [c \in 1..Len(cols) |-> HeaderItem(cols[c])],
         rows    |-> inserted]

\* The widget after clear(), setColumnCount, setHorizontalHeaderLabels, an
\* insertRow(i) per result row and the final setRowCount.
MaterializedGrid(old, cols, rows) ==
    LET cleared  == [r \in 1..rowCount(old) |->
                        [c \in 1..Len(cols) |-> NoItem]]
        inserted == [r \in 1..Len(rows) |->
                        [c \in 1..Len(cols) |-> RenderCell(rows[r][c])]]
    IN  [headers |-> [c \in 1..Len(cols) |-> HeaderItem(cols[c])],
         rows    |-> SubSeq(inserted \o cleared, 1, Len(rows))]

\* The parameter check that opens LoadTableData and UpdateCompleteTable.
ParametersValid(t, widget) == FileLoaded /\ t # "" /\ widget

\* Mutant: the connection is taken to be open whenever a file was loaded.
ConnectionAssumedOpen == TRUE

\* The check that the connection is still open.
ConnectionOpen == dbOpen

\* Mutant: a load finds no columns only when the look-up is skipped.
ColumnsNeverUnavailable(cols) == FALSE

\* "_columnNames.isEmpty()".
ColumnsUnavailable(cols) == cols = <<>>

\* "SELECT * FROM t" runs.
SelectSucceeds(t, fault) == TableExists(t) /\ NameCompiles(t) /\ ~fault

\* Mutant: the read leaves a transaction open on the connection.
ReadLeavesTransaction ==
    /\ inTxn' = TRUE
    /\ UNCHANGED <<durable, db>>

\* The storage after the statements of a load: PRAGMA and SELECT write
\* nothing and begin nothing.
ReadOnlyStatements == UNCHANGED <<durable, db, inTxn>>

\* Mutant: the widget is cleared before the query runs.
LoadTableDataClearsFirst(t, widget, pragmaFault, selectFault) ==
    /\ pc = "Idle"
    /\ alive
    /\ gridBefore' = grid
    /\ UNCHANGED <<workerVars, pc, localVars, pre>>
    /\ ReadOnlyStatements
    /\ LET after == IF last.op = "Commit" /\ last.table = t
                       /\ last.kind \in {"Ok", "InsertFailed"}
                    THEN last.kind ELSE "None"
           cols  == GetTableColumns(t, pragmaFault)
       IN
       IF ~ParametersValid(t, widget) \/ ~ConnectionOpen
       THEN /\ last' = Outcome("Load", t, widget, "InvalidRequest", -1, after)
            /\ log' = <<>>
            /\ UNCHANGED grid
       ELSE IF ColumnsUnavailable(cols)
       THEN /\ last' = Outcome("Load", t, widget, "SchemaUnavailable", -1, after)
            /\ log' = <<Entry("PRAGMA", t, <<>>, <<>>)>>
            /\ UNCHANGED grid
       ELSE IF ~SelectSucceeds(t, selectFault)
       THEN /\ last' = Outcome("Load", t, widget, "QueryFailed", -1, after)
            /\ log' = <<Entry("PRAGMA", t, <<>>, <<>>),
                        Entry("SELECT", t, <<>>, <<>>)>>
            /\ grid' = MaterializedGrid(grid, cols, <<>>)
       ELSE /\ last' = Outcome("Load", t, widget, "Ok", -1, after)
            /\ log' = <<Entry("PRAGMA", t, <<>>, <<>>),
                        Entry("SELECT", t, <<>>, <<>>)>>
            /\ grid' = MaterializedGrid(grid, cols, db[t])

LoadTableData(t, widget, pragmaFault, selectFault) ==
    /\ pc = "Idle"
    /\ alive
    /\ gridBefore' = grid
    /\ UNCHANGED <<workerVars, pc, localVars, pre>>
    /\ ReadOnlyStatements
    /\ LET after == IF last.op = "Commit" /\ last.table = t
                       /\ last.kind \in {"Ok", "InsertFailed"}
                    THEN last.kind ELSE "None"
           cols  == GetTableColumns(t, pragmaFault)
       IN
       IF ~ParametersValid(t, widget) \/ ~ConnectionOpen
       THEN /\ last' = Outcome("Load", t, widget, "InvalidRequest", -1, after)
            /\ log' = <<>>
            /\ UNCHANGED grid
       ELSE IF ColumnsUnavailable(cols)
       THEN /\ last' = Outcome("Load", t, widget, "SchemaUnavailable", -1, after)
            /\ log' = <<Entry("PRAGMA", t, <<>>, <<>>)>>
            /\ UNCHANGED grid
       ELSE IF ~SelectSucceeds(t, selectFault)
       THEN /\ last' = Outcome("Load", t, widget, "QueryFailed", -1, after)
            /\ log' = <<Entry("PRAGMA", t, <<>>, <<>>),
                        Entry("SELECT", t, <<>>, <<>>)>>
            /\ UNCHANGED grid
       ELSE /\ last' = Outcome("Load", t, widget, "Ok", -1, after)
            /\ log' = <<Entry("PRAGMA", t, <<>>, <<>>),
                        Entry("SELECT", t, <<>>, <<>>)>>
            /\ grid' = MaterializedGrid(grid, cols, db[t])

(***************************************************************************)
(* Table synchronizer: SQLWorker::UpdateCompleteTable, one action per      *)
(* storage step.  The engine is single-threaded: while a call runs         *)
(* (pc # "Idle") no other operation starts.                                *)
(***************************************************************************)
\* QSqlDatabase::transaction.
TransactionStarts(fault) == dbOpen /\ ~fault

\* "DELETE FROM t" runs.
DeleteSucceeds(t, fault) == TableExists(t) /\ NameCompiles(t) /\ ~fault

\* QString("Column_%1").arg(n).
ColumnPlaceholder(n) ==
    <<"Column_1", "Column_2", "Column_3", "Column_4", "Column_5">>[n]

\* Mutant: the catalog's column is preferred to the header label.
ResolvedNameCatalogFirst(g, t, n, fault) ==
    LET dbColumns == GetTableColumns(t, fault)
    IN  IF n <= Len(dbColumns) THEN dbColumns[n]
        ELSE IF g.headers[n].has THEN g.headers[n].text
        ELSE ColumnPlaceholder(n)

\* The name written for grid column n (1-based): the header label, else the
\* catalog's column n, else a placeholder.
ResolvedName(g, t, n, fault) ==
    IF g.headers[n].has
    THEN g.headers[n].text
    ELSE LET dbColumns == GetTableColumns(t, fault)
         IN  IF n <= Len(dbColumns) THEN dbColumns[n]
             ELSE ColumnPlaceholder(n)

\* The value bound for a cell: the item's text, "" for a missing item.
BoundValue(cell) ==
    IF ~cell.item THEN TextValue(<<>>)
    ELSE IF cell.null THEN NullValue
    ELSE TextValue(cell.s)

\* Mutant: a cell without an item is skipped, the values of the cells after
\* it move one place to the left and the row is filled up at its end.
BoundRowSkipsMissing(g, r) ==
    LET present == SelectSeq(g.rows[r], LAMBDA cell : cell.item)
    IN  [c \in 1..columnCount(g) |->
            IF c <= Len(present) THEN BoundValue(present[c])
            ELSE TextValue(<<>>)]

\* Mutant: the rows are read from the bottom of the widget upwards.
BoundRowReversed(g, r) ==
    [c \in 1..columnCount(g) |-> BoundValue(g.rows[rowCount(g) + 1 - r][c])]

BoundRow(g, r) == [c \in 1..columnCount(g) |-> BoundValue(g.rows[r][c])]

\* What the caller of UpdateCompleteTable receives when the call returns
\* on the path the model names kind, at row r: "true if table updated
\* successfully, false otherwise".  The path and the row go to qDebug only.
ReturnValue(kind, r) == kind = "Ok"

\* return from UpdateCompleteTable with the given outcome.
Return(kind, r, entries) ==
    /\ last' = Outcome("Commit", callTable, last.widget, kind, r, last.after)
    /\ log' = log \o entries
    /\ pc' = "Idle"
    /\ callTable' = ""
    /\ columnNames' = <<>>
    /\ row' = 0

\* Mutant: the statements that follow run with no transaction open.
TransactionNotBegun == inTxn' = FALSE

\* SqlDatabase.transaction() has succeeded.
TransactionBegun == inTxn' = TRUE

\* A statement has changed the content to new: durable at once unless a
\* transaction is open.
Written(new) ==
    /\ db' = new
    /\ durable' = IF inTxn THEN durable ELSE new

\* The content once "DELETE FROM t" has run.
Cleared(content, t) == [content EXCEPT ![t] = <<>>]

\* Mutant: the rollback closes the transaction and keeps its work.
RollbackKeepsWork ==
    /\ db' = db
    /\ inTxn' = FALSE
    /\ UNCHANGED durable

\* SqlDatabase.rollback().
Rollback ==
    /\ db' = durable
    /\ inTxn' = FALSE
    /\ UNCHANGED durable

\* SqlDatabase.commit().
CommitSucceeds(fault) == inTxn /\ ~fault

\* Mutant: the call goes on when the transaction could not be started.
UpdateCompleteTableUnguarded(t, widget, fault) ==
    /\ pc = "Idle"
    /\ alive
    /\ pre' = durable
    /\ gridBefore' = grid
    /\ UNCHANGED <<workerVars, durable, db, columnNames, row, grid>>
    /\ LET after == IF last.op = "Load" /\ last.table = t
                       /\ last.kind = "Ok"
                    THEN "Load" ELSE "None"
       IN
       IF ~ParametersValid(t, widget) \/ ~ConnectionOpen
       THEN /\ last' = Outcome("Commit", t, widget, "InvalidRequest", -1, after)
            /\ log' = <<>>
            /\ UNCHANGED <<inTxn, pc, callTable>>
       ELSE /\ last' = Outcome("Commit", t, widget, "Running", -1, after)
            /\ log' = <<Entry("BEGIN", "", <<>>, <<>>)>>
            /\ inTxn' = TransactionStarts(fault)
            /\ pc' = "TransactionStarted"
            /\ callTable' = t

UpdateCompleteTable(t, widget, fault) ==
    /\ pc = "Idle"
    /\ alive
    /\ pre' = durable
    /\ gridBefore' = grid
    /\ UNCHANGED <<workerVars, durable, db, columnNames, row, grid>>
    /\ LET after == IF last.op = "Load" /\ last.table = t
                       /\ last.kind = "Ok"
                    THEN "Load" ELSE "None"
       IN
       IF ~ParametersValid(t, widget) \/ ~ConnectionOpen
       THEN /\ last' = Outcome("Commit", t, widget, "InvalidRequest", -1, after)
            /\ log' = <<>>
            /\ UNCHANGED <<inTxn, pc, callTable>>
       ELSE IF ~TransactionStarts(fault)
       THEN /\ last' = Outcome("Commit", t, widget, "TransactionUnavailable", -1,
                               after)
            /\ log' = <<Entry("BEGIN", "", <<>>, <<>>)>>
            /\ UNCHANGED <<inTxn, pc, callTable>>
       ELSE /\ last' = Outcome("Commit", t, widget, "Running", -1, after)
            /\ log' = <<Entry("BEGIN", "", <<>>, <<>>)>>
            /\ TransactionBegun
            /\ pc' = "TransactionStarted"
            /\ callTable' = t

DeleteAll(fault) ==
    /\ pc = "TransactionStarted"
    /\ UNCHANGED <<workerVars, grid, gridBefore, pre>>
    /\ IF ~DeleteSucceeds(callTable, fault)
       THEN /\ Rollback
            /\ Return("DeleteFailed", -1,
                      <<Entry("DELETE", callTable, <<>>, <<>>),
                        Entry("ROLLBACK", "", <<>>, <<>>)>>)
       ELSE /\ Written(Cleared(db, callTable))
            /\ log' = Append(log, Entry("DELETE", callTable, <<>>, <<>>))
            /\ pc' = "Cleared"
            /\ UNCHANGED <<inTxn, last, localVars>>

ResolveColumns(faults) ==
    /\ pc = "Cleared"
    /\ columnNames' = [n \in 1..columnCount(grid) |->
                          ResolvedName(grid, callTable, n, faults[n])]
    /\ log' = log \o
              [i \in 1..Cardinality({n \in 1..columnCount(grid) :
                                        ~grid.headers[n].has}) |->
                  Entry("PRAGMA", callTable, <<>>, <<>>)]
    /\ pc' = "ColumnsResolved"
    /\ UNCHANGED <<workerVars, storageVars, grid, gridBefore, pre, last,
                   callTable, row>>

PrepareInsert(fault) ==
    /\ pc = "ColumnsResolved"
    /\ UNCHANGED <<workerVars, grid, gridBefore, pre>>
    /\ IF ~InsertCompiles(callTable, columnNames) \/ fault
       THEN /\ Rollback
            /\ Return("PrepareFailed", -1,
                      <<Entry("PREPARE", callTable, columnNames, <<>>),
                        Entry("ROLLBACK", "", <<>>, <<>>)>>)
       ELSE /\ log' = Append(log,
                             Entry("PREPARE", callTable, columnNames, <<>>))
            /\ pc' = "Inserting"
            /\ row' = 0
            /\ UNCHANGED <<storageVars, last, callTable, columnNames>>

\* Mutant: a failed INSERT is executed a second time before giving up.
InsertRowRetried(prepareFault, execFault) ==
    /\ pc = "Inserting"
    /\ row < rowCount(grid)
    /\ UNCHANGED <<workerVars, grid, gridBefore, pre>>
    /\ LET bound == BoundRow(grid, row + 1)
           new   == StoredRow(callTable, columnNames, bound)
       IN
       IF prepareFault
       THEN /\ Rollback
            /\ Return("PrepareFailed", row,
                      <<Entry("PREPARE", callTable, columnNames, <<>>),
                        Entry("ROLLBACK", "", <<>>, <<>>)>>)
       ELSE IF execFault \/ ConstraintViolated(callTable, db[callTable], new)
       THEN /\ Rollback
            /\ Return("InsertFailed", row,
                      <<Entry("PREPARE", callTable, columnNames, <<>>),
                        Entry("INSERT", callTable, columnNames, bound),
                        Entry("INSERT", callTable, columnNames, bound),
                        Entry("ROLLBACK", "", <<>>, <<>>)>>)
       ELSE /\ Written([db EXCEPT ![callTable] = Append(@, new)])
            /\ log' = log \o
                      <<Entry("PREPARE", callTable, columnNames, <<>>),
                        Entry("INSERT", callTable, columnNames, bound)>>
            /\ row' = row + 1
            /\ UNCHANGED <<inTxn, pc, last, callTable, columnNames>>

\* Mutant: after a row the call goes back to resolving the columns and
\* starts the row loop again.
InsertRowStartsOver(prepareFault, execFault) ==
    /\ pc = "Inserting"
    /\ row < rowCount(grid)
    /\ UNCHANGED <<workerVars, grid, gridBefore, pre>>
    /\ LET bound == BoundRow(grid, row + 1)
           new   == StoredRow(callTable, columnNames, bound)
       IN
       IF prepareFault
       THEN /\ Rollback
            /\ Return("PrepareFailed", row,
                      <<Entry("PREPARE", callTable, columnNames, <<>>),
                        Entry("ROLLBACK", "", <<>>, <<>>)>>)
       ELSE IF execFault \/ ConstraintViolated(callTable, db[callTable], new)
       THEN /\ Rollback
            /\ Return("InsertFailed", row,
                      <<Entry("PREPARE", callTable, columnNames, <<>>),
                        Entry("INSERT", callTable, columnNames, bound),
                        Entry("ROLLBACK", "", <<>>, <<>>)>>)
       ELSE /\ pc' = "Cleared"
            /\ log' = SubSeq(log, 1, 2)
            /\ columnNames' = <<>>
            /\ UNCHANGED <<storageVars, last, callTable, row>>

InsertRow(prepareFault, execFault) ==
    /\ pc = "Inserting"
    /\ row < rowCount(grid)
    /\ UNCHANGED <<workerVars, grid, gridBefore, pre>>
    /\ LET bound == BoundRow(grid, row + 1)
           new   == StoredRow(callTable, columnNames, bound)
       IN
       IF prepareFault
       THEN /\ Rollback
            /\ Return("PrepareFailed", row,
                      <<Entry("PREPARE", callTable, columnNames, <<>>),
                        Entry("ROLLBACK", "", <<>>, <<>>)>>)
       ELSE IF execFault \/ ConstraintViolated(callTable, db[callTable], new)
       THEN /\ Rollback
            /\ Return("InsertFailed", row,
                      <<Entry("PREPARE", callTable, columnNames, <<>>),
                        Entry("INSERT", callTable, columnNames, bound),
                        Entry("ROLLBACK", "", <<>>, <<>>)>>)
       ELSE /\ Written([db EXCEPT ![callTable] = Append(@, new)])
            /\ log' = log \o
                      <<Entry("PREPARE", callTable, columnNames, <<>>),
                        Entry("INSERT", callTable, columnNames, bound)>>
            /\ row' = row + 1
            /\ UNCHANGED <<inTxn, pc, last, callTable, columnNames>>

\* Mutant: a failed commit returns without rolling back.
CommitNoRollback(fault) ==
    /\ pc = "Inserting"
    /\ row >= rowCount(grid)
    /\ UNCHANGED <<workerVars, grid, gridBefore, pre>>
    /\ IF ~CommitSucceeds(fault)
       THEN /\ UNCHANGED <<durable, db, inTxn>>
            /\ Return("CommitFailed", -1, <<Entry("COMMIT", "", <<>>, <<>>)>>)
       ELSE /\ durable' = db
            /\ inTxn' = FALSE
            /\ UNCHANGED db
            /\ Return("Ok", -1, <<Entry("COMMIT", "", <<>>, <<>>)>>)

Commit(fault) ==
    /\ pc = "Inserting"
    /\ row >= rowCount(grid)
    /\ UNCHANGED <<workerVars, grid, gridBefore, pre>>
    /\ IF ~CommitSucceeds(fault)
       THEN /\ Rollback
            /\ Return("CommitFailed", -1,
                      <<Entry("COMMIT", "", <<>>, <<>>),
                        Entry("ROLLBACK", "", <<>>, <<>>)>>)
       ELSE /\ durable' = db
            /\ inTxn' = FALSE
            /\ UNCHANGED db
            /\ Return("Ok", -1, <<Entry("COMMIT", "", <<>>, <<>>)>>)

(***************************************************************************)
(* Single statements: SQLWorker::AddRowToTable, DeleteRowFromTable and     *)
(* SaveSQLFile.  They run outside any transaction: what they write is      *)
(* durable at once.                                                        *)
(***************************************************************************)
\* Texts a caller hands to AddRowToTable.
RowDataChoices == {<< <<"0", "1">>, <<"a">> >>}

\* Row indexes a caller hands to DeleteRowFromTable.
RowIndexChoices == {-1, 0, MaxStored}

\* The value bound for column i: the text given for it, else "".
RowDataValue(rowData, i) ==
    TextValue(IF i <= Len(rowData) THEN rowData[i] ELSE <<>>)

\* SQLWorker::AddRowToTable.  Only the call that stores a row is bounded
\* (MaxStored rows a table); every refused or failing call is a step.
AddRowToTable(t, rowData, fault) ==
    /\ pc = "Idle"
    /\ alive
    /\ gridBefore' = grid
    /\ UNCHANGED <<workerVars, inTxn, pc, localVars, grid, pre>>
    /\ LET cols  == GetTableColumns(t, ~dbOpen)
           bound == [i \in 1..Len(cols) |-> RowDataValue(rowData, i)]
           new   == StoredRow(t, cols, bound)
       IN
       IF ~FileLoaded \/ t = ""
       THEN /\ last' = Outcome("AddRow", t, FALSE, "InvalidRequest", -1, "None")
            /\ log' = <<>>
            /\ UNCHANGED <<durable, db>>
       ELSE IF cols = <<>>
       THEN /\ last' = Outcome("AddRow", t, FALSE, "SchemaUnavailable", -1,
                               "None")
            /\ log' = <<Entry("PRAGMA", t, <<>>, <<>>)>>
            /\ UNCHANGED <<durable, db>>
       ELSE IF ~InsertCompiles(t, cols)
       THEN /\ last' = Outcome("AddRow", t, FALSE, "PrepareFailed", -1, "None")
            /\ log' = <<Entry("PRAGMA", t, <<>>, <<>>),
                        Entry("PREPARE", t, cols, <<>>)>>
            /\ UNCHANGED <<durable, db>>
       ELSE IF fault \/ ConstraintViolated(t, db[t], new)
       THEN /\ last' = Outcome("AddRow", t, FALSE, "InsertFailed", -1, "None")
            /\ log' = <<Entry("PRAGMA", t, <<>>, <<>>),
                        Entry("PREPARE", t, cols, <<>>),
                        Entry("INSERT", t, cols, bound)>>
            /\ UNCHANGED <<durable, db>>
       ELSE /\ Len(db[t]) < MaxStored
            /\ last' = Outcome("AddRow", t, FALSE, "Ok", -1, "None")
            /\ log' = <<Entry("PRAGMA", t, <<>>, <<>>),
                        Entry("PREPARE", t, cols, <<>>),
                        Entry("INSERT", t, cols, bound)>>
            /\ Written([db EXCEPT ![t] = Append(@, new)])

\* The rows left when the row at position n (0-based) of a sequence of rows
\* is removed; all of them when there is no such row.
WithoutRow(rows, n) ==
    IF n < Len(rows)
    THEN SubSeq(rows, 1, n) \o SubSeq(rows, n + 2, Len(rows))
    ELSE rows

\* Characters in the order of their codes (BINARY collation).
CharOrder ==
    <<"0", "1", "2", "3", "4", "5", "6", "7", "8", "9",
      "a", "b", "c", "d", "e", "f", "g", "h", "i", "j", "k", "l", "m",
      "n", "o", "p", "q", "r", "s", "t", "u", "v", "w", "x", "y", "z">>

RECURSIVE DecimalValue(_)
\* The number a string of digits denotes.
DecimalValue(s) ==
    IF s = <<>> THEN 0
    ELSE 10 * DecimalValue(SubSeq(s, 1, Len(s) - 1))
         + (IndexOf(CharOrder, s[Len(s)]) - 1)

RECURSIVE TextLess(_, _)
\* memcmp order of two texts.
TextLess(a, b) ==
    IF b = <<>> THEN FALSE
    ELSE IF a = <<>> THEN TRUE
    ELSE IF Head(a) = Head(b) THEN TextLess(Tail(a), Tail(b))
    ELSE IndexOf(CharOrder, Head(a)) < IndexOf(CharOrder, Head(b))

\* SQLite's order of storage classes: NULL, then numbers, then text.
StorageClass(v) ==
    CASE v.t = "null" -> 0
      [] v.t = "int"  -> 1
      [] OTHER        -> 2

\* v sorts before w in an index.
ValueLess(v, w) ==
    \/ StorageClass(v) < StorageClass(w)
    \/ /\ v.t = "int" /\ w.t = "int"
       /\ DecimalValue(v.s) < DecimalValue(w.s)
    \/ /\ v.t = "text" /\ w.t = "text"
       /\ TextLess(v.s, w.s)

\* "SELECT ROWID FROM t" has no ORDER BY: SQLite answers it from the
\* index of a UNIQUE column when t has one (rows in the order of that
\* column's values, equal ones by ROWID), else from the table in ROWID
\* order.  Row i (1-based, stored order) comes before row j in that scan.
ScansBefore(t, rows, i, j) ==
    IF SchemaUnique(t) = {}
    THEN i < j
    ELSE LET c == CHOOSE c \in SchemaUnique(t) : TRUE
         IN  \/ ValueLess(rows[i][c], rows[j][c])
             \/ /\ ~ValueLess(rows[j][c], rows[i][c])
                /\ i < j

\* "(SELECT ROWID FROM t LIMIT 1 OFFSET n)": the stored position of the
\* row that n rows precede in the scan; 0 when there is none.
RowAtOffset(t, rows, n) ==
    IF n \in 0..(Len(rows) - 1)
    THEN CHOOSE p \in 1..Len(rows) :
            Cardinality({q \in 1..Len(rows) : ScansBefore(t, rows, q, p)}) = n
    ELSE 0

\* "DELETE FROM t WHERE ROWID = (...)": the rows of t without the row the
\* sub-select names; all of them when it names none.
DeletedAtOffset(t, rows, n) ==
    IF RowAtOffset(t, rows, n) = 0
    THEN rows
    ELSE WithoutRow(rows, RowAtOffset(t, rows, n) - 1)

\* SQLWorker::DeleteRowFromTable.
DeleteRowFromTable(t, rowIndex, fault) ==
    /\ pc = "Idle"
    /\ alive
    /\ gridBefore' = grid
    /\ UNCHANGED <<workerVars, inTxn, pc, localVars, grid, pre>>
    /\ IF ~FileLoaded \/ t = "" \/ rowIndex < 0
       THEN /\ last' = Outcome("DeleteRow", t, FALSE, "InvalidRequest", rowIndex,
                               "None")
            /\ log' = <<>>
            /\ UNCHANGED <<durable, db>>
       ELSE IF ~dbOpen \/ ~TableExists(t) \/ ~NameCompiles(t) \/ fault
       THEN /\ last' = Outcome("DeleteRow", t, FALSE, "QueryFailed", rowIndex,
                               "None")
            /\ log' = <<Entry("DELETE_ROW", t, <<>>, <<>>)>>
            /\ UNCHANGED <<durable, db>>
       ELSE /\ last' = Outcome("DeleteRow", t, FALSE, "Ok", rowIndex, "None")
            /\ log' = <<Entry("DELETE_ROW", t, <<>>, <<>>)>>
            /\ Written([db EXCEPT ![t] = DeletedAtOffset(t, @, rowIndex)])

SaveSQLFile ==
    /\ pc = "Idle"
    /\ alive
    /\ last' = Outcome("Save", "", FALSE,
                       IF FileLoaded THEN "Ok" ELSE "InvalidRequest", -1, "None")
    /\ log' = <<>>
    /\ gridBefore' = grid
    /\ UNCHANGED <<workerVars, storageVars, pc, localVars, grid, pre>>

(***************************************************************************)
(* The caller of the engine builds a widget of its own before a call; the  *)
(* outcome it held of an earlier call is dropped with the old widget.      *)
(***************************************************************************)
SetGrid(g) ==
    /\ pc = "Idle"
    /\ alive
    /\ grid # g
    /\ grid' = g
    /\ gridBefore' = g
    /\ pre' = durable
    /\ last' = Outcome("None", "", FALSE, "None", -1, "None")
    /\ log' = <<>>
    /\ UNCHANGED <<workerVars, storageVars, pc, localVars>>

(***************************************************************************)
(* The specification.                                                      *)
(***************************************************************************)
\* The storage engine executes every statement it is given: calls fail only
\* for what they ask (an unknown table or column, a name that does not
\* compile, a violated constraint, a closed connection, a bad path).
Next ==
    \/ /\ \E path \in Paths : LoadSQLFile(path, FALSE, FALSE, FALSE)
       /\ UNCHANGED <<windowVars, instanceVars>>
    \/ /\ \E t \in TableNames : \E widget \in BOOLEAN :
             LoadTableData(t, widget, FALSE, FALSE)
       /\ UNCHANGED <<windowVars, instanceVars>>
    \/ /\ \E t \in TableNames : \E widget \in BOOLEAN :
             UpdateCompleteTable(t, widget, FALSE)
       /\ UNCHANGED <<windowVars, instanceVars>>
    \/ /\ \E g \in Grids : SetGrid(g)
       /\ UNCHANGED <<windowVars, instanceVars>>
    \/ /\ DeleteAll(FALSE)
       /\ UNCHANGED <<windowVars, instanceVars>>
    \/ /\ ResolveColumns([n \in 1..columnCount(grid) |-> FALSE])
       /\ UNCHANGED <<windowVars, instanceVars>>
    \/ /\ PrepareInsert(FALSE)
       /\ UNCHANGED <<windowVars, instanceVars>>
    \/ /\ InsertRow(FALSE, FALSE)
       /\ UNCHANGED <<windowVars, instanceVars>>
    \/ /\ Commit(FALSE)
       /\ UNCHANGED <<windowVars, instanceVars>>

Spec == Init /\ [][Next]_vars

\* Any step of the storage engine may also fail for a reason of its own
\* (I/O error, locked or full file).
NextFaults ==
    \/ /\ \E path \in Paths : \E f1, f2 \in BOOLEAN :
             LoadSQLFile(path, f1, f2, FALSE)
       /\ UNCHANGED <<windowVars, instanceVars>>
    \/ /\ \E t \in TableNames : \E widget \in BOOLEAN :
             LoadTableData(t, widget, FALSE, FALSE)
       /\ UNCHANGED <<windowVars, instanceVars>>
    \/ /\ \E t \in TableNames : \E widget, f \in BOOLEAN :
             UpdateCompleteTable(t, widget, f)
       /\ UNCHANGED <<windowVars, instanceVars>>
    \/ /\ \E g \in Grids : SetGrid(g)
       /\ UNCHANGED <<windowVars, instanceVars>>
    \/ /\ \E f \in BOOLEAN : DeleteAll(f)
       /\ UNCHANGED <<windowVars, instanceVars>>
    \/ /\ \E faults \in [1..columnCount(grid) -> BOOLEAN] : ResolveColumns(faults)
       /\ UNCHANGED <<windowVars, instanceVars>>
    \/ /\ \E f \in BOOLEAN : PrepareInsert(f)
       /\ UNCHANGED <<windowVars, instanceVars>>
    \/ /\ \E f1, f2 \in BOOLEAN : InsertRow(f1, f2)
       /\ UNCHANGED <<windowVars, instanceVars>>
    \/ /\ \E f \in BOOLEAN : Commit(f)
       /\ UNCHANGED <<windowVars, instanceVars>>

SpecFaults == Init /\ [][NextFaults]_vars

\* The whole life of one engine instance, from construction to destruction:
\* every public operation on the widget the instance last filled, with the
\* opening and reading statements and the single-row statements failing
\* for reasons of the engine's own.
NextLifecycle ==
    \/ /\ \E path \in Paths : \E f1, f2, f3 \in BOOLEAN :
             LoadSQLFile(path, f1, f2, f3)
       /\ UNCHANGED <<windowVars, instanceVars>>
    \/ /\ \E t \in TableNames : \E widget, f1, f2 \in BOOLEAN :
             LoadTableData(t, widget, f1, f2)
       /\ UNCHANGED <<windowVars, instanceVars>>
    \/ /\ \E t \in TableNames : \E widget \in BOOLEAN :
             UpdateCompleteTable(t, widget, FALSE)
       /\ UNCHANGED <<windowVars, instanceVars>>
    \/ /\ DeleteAll(FALSE)
       /\ UNCHANGED <<windowVars, instanceVars>>
    \/ /\ ResolveColumns([n \in 1..columnCount(grid) |-> FALSE])
       /\ UNCHANGED <<windowVars, instanceVars>>
    \/ /\ PrepareInsert(FALSE)
       /\ UNCHANGED <<windowVars, instanceVars>>
    \/ /\ InsertRow(FALSE, FALSE)
       /\ UNCHANGED <<windowVars, instanceVars>>
    \/ /\ Commit(FALSE)
       /\ UNCHANGED <<windowVars, instanceVars>>
    \/ /\ \E t \in TableNames : \E rowData \in RowDataChoices :
             \E f \in BOOLEAN : AddRowToTable(t, rowData, f)
       /\ UNCHANGED <<windowVars, instanceVars>>
    \/ /\ \E t \in TableNames : \E rowIndex \in RowIndexChoices :
             \E f \in BOOLEAN : DeleteRowFromTable(t, rowIndex, f)
       /\ UNCHANGED <<windowVars, instanceVars>>
    \/ /\ SaveSQLFile
       /\ UNCHANGED <<windowVars, instanceVars>>
    \/ /\ Destroy
       /\ UNCHANGED <<windowVars, instanceVars>>

SpecLifecycle == Init /\ [][NextLifecycle]_vars

(***************************************************************************)
(* The window: MainWindow's handlers driving one SQLWorker and the grid    *)
(* DataTable.  A handler that calls the engine more than once, or calls    *)
(* UpdateCompleteTable, is at position uiPc between the calls; no other    *)
(* handler starts before it is back at "Ready" (one GUI thread, modal      *)
(* dialogs).                                                               *)
(***************************************************************************)
\* Texts the user types into a cell (one that an INTEGER column stores as
\* the number 7), and the columns whose cells the user edits.
EditTexts   == {<<"0", "7">>}
EditColumns == {1, 2}

\* The window changes the grid itself or starts another handler: the engine
\* is not called, and the record kept of its last call ends here.
NoEngineCall ==
    /\ UNCHANGED <<workerVars, storageVars, pc, localVars>>
    /\ gridBefore' = grid'
    /\ pre' = durable
    /\ last' = Outcome("None", "", FALSE, "None", -1, "None")
    /\ log' = <<>>

\* atClick when the last handler was not Update.
NoSnapshot == [add |-> FALSE, del |-> FALSE, edit |-> FALSE,
               unsaved |-> FALSE, triggers |-> "NoEditTriggers",
               grid |-> EmptyGrid]

\* A handler other than Update has run.
Handled ==
    /\ uiLast' = "None"
    /\ atClick' = NoSnapshot

\* Mutant: the flag alone, whatever the state of the connection.
IsFileLoadedFlagOnly == FileLoaded

\* SQLWorker::IsFileLoaded.
IsFileLoaded == FileLoaded /\ dbOpen

\* "!HasUnsavedChanges && !IsAddMode && !IsDeleteMode && !IsEditMode".
NothingPending ==
    ~HasUnsavedChanges /\ ~IsAddMode /\ ~IsDeleteMode /\ ~IsEditMode

\* Mutant: the reset clears the mode flags and leaves the edit triggers.
ResetToggleButtonsKeepsTriggers ==
    /\ IsAddMode' = FALSE
    /\ IsDeleteMode' = FALSE
    /\ IsEditMode' = FALSE
    /\ UNCHANGED editTriggers

\* MainWindow::ResetToggleButtons.
ResetToggleButtons ==
    /\ IsAddMode' = FALSE
    /\ IsDeleteMode' = FALSE
    /\ IsEditMode' = FALSE
    /\ editTriggers' = "NoEditTriggers"

\* MainWindow::LoadTableData with CurrentTableName = t: the engine's load
\* of t into DataTable, unless no table is selected or no file is loaded.
\* The call was made and returned true:
WindowLoaded(t) == t # "" /\ IsFileLoaded /\ last'.kind = "Ok"

WindowLoadTableData(t, pragmaFault, selectFault, unloaded) ==
    /\ IF t = "" \/ ~IsFileLoaded
       THEN UNCHANGED engineVars
       ELSE LoadTableData(t, TRUE, pragmaFault, selectFault)
    /\ gridTable' = IF WindowLoaded(t) THEN t ELSE gridTable
    /\ baseline' = IF WindowLoaded(t) THEN grid' ELSE unloaded

\* Lines 229-232 of OnLoadFileClicked: the combo box and the grid are
\* emptied before the engine is called.
BeginLoadFile ==
    /\ comboItems' = <<>>
    /\ comboIndex' = 0
    /\ grid' = EmptyGrid
    /\ gridTable' = ""
    /\ baseline' = EmptyGrid
    /\ uiPc' = "LoadFile"
    /\ Handled
    /\ NoEngineCall
    /\ UNCHANGED <<CurrentTableName, modeVars, HasUnsavedChanges,
                   buttonsEnabled, editTriggers>>

\* MainWindow::OnChooseFileClicked with the dialog returning path; it goes
\* on into OnLoadFileClicked.
OnChooseFileClicked(path) ==
    /\ uiPc = "Ready"
    /\ path # ""
    /\ WindowFilePath' = path
    /\ BeginLoadFile

\* MainWindow::OnLoadFileClicked, from the button (enabled once a file was
\* chosen).
OnLoadFileClicked ==
    /\ uiPc = "Ready"
    /\ WindowFilePath # ""
    /\ UNCHANGED WindowFilePath
    /\ BeginLoadFile

\* Lines 235-251 of OnLoadFileClicked: the engine opens the file; on
\* success the table names are added to the combo box.
LoadFileCall(openFault, validateFault, parseFault) ==
    /\ uiPc = "LoadFile"
    /\ LoadSQLFile(WindowFilePath, openFault, validateFault, parseFault)
    /\ IF last'.kind = "Ok" /\ AvailableTableNames' # <<>>
       THEN /\ comboItems' = AvailableTableNames'
            /\ uiPc' = "ItemsAdded"
       ELSE /\ UNCHANGED comboItems
            /\ uiPc' = "Ready"
    /\ Handled
    /\ UNCHANGED <<WindowFilePath, CurrentTableName, modeVars,
                   HasUnsavedChanges, comboIndex, buttonsEnabled,
                   editTriggers, gridTable, baseline>>

\* MainWindow::OnTableSelectionChanged for item i (1-based): the user picks
\* another item, or addItems has just made the first item current.
OnTableSelectionChanged(i, pragmaFault, selectFault) ==
    /\ \/ uiPc = "Ready" /\ i # comboIndex
       \/ uiPc = "ItemsAdded" /\ i = 1
    /\ i \in 1..Len(comboItems)
    /\ comboIndex' = i
    /\ CurrentTableName' = comboItems[i]
    /\ WindowLoadTableData(comboItems[i], pragmaFault, selectFault, baseline)
    /\ HasUnsavedChanges' = IF WindowLoaded(comboItems[i]) THEN FALSE
                            ELSE HasUnsavedChanges
    /\ buttonsEnabled' = TRUE
    /\ ResetToggleButtons
    /\ uiPc' = "Ready"
    /\ Handled
    /\ UNCHANGED <<WindowFilePath, comboItems>>

\* Mutant: the new row has one cell less than the grid has columns.
AddedRowShort(g) ==
    [g EXCEPT !.rows = Append(@, [c \in 1..(columnCount(g) - 1) |->
                                     Item(<<>>)])]

\* MainWindow::AddNewRow: a row of empty items at the bottom.
AddedRow(g) ==
    [g EXCEPT !.rows = Append(@, [c \in 1..columnCount(g) |-> Item(<<>>)])]

\* MainWindow::OnAddButtonClicked.
OnAddButtonClicked ==
    /\ uiPc = "Ready"
    /\ buttonsEnabled
    /\ IF IsAddMode
       THEN /\ IsAddMode' = FALSE
            /\ editTriggers' = "NoEditTriggers"
            /\ UNCHANGED <<IsDeleteMode, IsEditMode, grid, HasUnsavedChanges>>
       ELSE /\ rowCount(grid) < MaxGridRows
            /\ IsAddMode' = TRUE
            /\ IsDeleteMode' = FALSE
            /\ IsEditMode' = FALSE
            /\ grid' = AddedRow(grid)
            /\ editTriggers' = "DoubleClicked"
            /\ HasUnsavedChanges' = TRUE
    /\ Handled
    /\ NoEngineCall
    /\ UNCHANGED <<WindowFilePath, CurrentTableName, comboItems,
                   comboIndex, buttonsEnabled, uiPc, gridTable, baseline>>

\* MainWindow::OnDeleteButtonClicked.
OnDeleteButtonClicked ==
    /\ uiPc = "Ready"
    /\ buttonsEnabled
    /\ IF IsDeleteMode
       THEN /\ IsDeleteMode' = FALSE
            /\ UNCHANGED <<IsAddMode, IsEditMode, editTriggers>>
       ELSE /\ IsAddMode' = FALSE
            /\ IsDeleteMode' = TRUE
            /\ IsEditMode' = FALSE
            /\ editTriggers' = "NoEditTriggers"
    /\ Handled
    /\ UNCHANGED grid
    /\ NoEngineCall
    /\ UNCHANGED <<WindowFilePath, CurrentTableName,
                   HasUnsavedChanges, comboItems, comboIndex, buttonsEnabled,
                   uiPc, gridTable, baseline>>

\* MainWindow::OnEditButtonClicked.
OnEditButtonClicked ==
    /\ uiPc = "Ready"
    /\ buttonsEnabled
    /\ IF IsEditMode
       THEN /\ IsEditMode' = FALSE
            /\ editTriggers' = "NoEditTriggers"
            /\ UNCHANGED <<IsAddMode, IsDeleteMode>>
       ELSE /\ IsAddMode' = FALSE
            /\ IsDeleteMode' = FALSE
            /\ IsEditMode' = TRUE
            /\ editTriggers' = "DoubleClickedOrEditKeyPressed"
    /\ Handled
    /\ UNCHANGED grid
    /\ NoEngineCall
    /\ UNCHANGED <<WindowFilePath, CurrentTableName,
                   HasUnsavedChanges, comboItems, comboIndex, buttonsEnabled,
                   uiPc, gridTable, baseline>>

\* Mutant: the row is deleted from the file as well as from the display.
DisplayAndStorage(r) ==
    /\ UNCHANGED <<workerVars, inTxn, pc, localVars>>
    /\ gridBefore' = grid'
    /\ pre' = durable
    /\ last' = Outcome("None", "", FALSE, "None", -1, "None")
    /\ log' = <<>>
    /\ IF CurrentTableName \in DOMAIN db
       THEN Written([db EXCEPT ![CurrentTableName] = WithoutRow(@, r - 1)])
       ELSE UNCHANGED <<durable, db>>

\* "Only delete from the displayed table, not from the SQL file": the
\* engine is not called.
DisplayOnly(r) == NoEngineCall

\* MainWindow::OnRowDoubleClicked on row r (1-based) of the grid, with the
\* user's answer to the confirmation dialog; MainWindow::DeleteRow.
OnRowDoubleClicked(r, confirmed) ==
    /\ uiPc = "Ready"
    /\ r \in 1..rowCount(grid)
    /\ columnCount(grid) > 0
    /\ IsDeleteMode
    /\ confirmed
    /\ grid' = [grid EXCEPT !.rows = WithoutRow(@, r - 1)]
    /\ HasUnsavedChanges' = TRUE
    /\ DisplayOnly(r)
    /\ Handled
    /\ UNCHANGED <<WindowFilePath, CurrentTableName, modeVars, comboItems,
                   comboIndex, buttonsEnabled, editTriggers, uiPc, gridTable,
                   baseline>>

\* The user edits cell (r, c) of the grid, which the edit triggers allow;
\* no handler of the window is connected to the change.
EditCell(r, c, text) ==
    /\ uiPc = "Ready"
    /\ editTriggers # "NoEditTriggers"
    /\ r \in 1..rowCount(grid)
    /\ c \in 1..columnCount(grid)
    /\ grid.rows[r][c] # Item(text)
    /\ grid' = [grid EXCEPT !.rows[r][c] = Item(text)]
    /\ Handled
    /\ NoEngineCall
    /\ UNCHANGED <<WindowFilePath, CurrentTableName, modeVars,
                   HasUnsavedChanges, comboItems, comboIndex, buttonsEnabled,
                   editTriggers, uiPc, gridTable, baseline>>

\* MainWindow::OnUpdateButtonClicked up to the call of the engine (lines
\* 346-362).
OnUpdateButtonClicked(fault) ==
    /\ uiPc = "Ready"
    /\ buttonsEnabled
    /\ atClick' = Snapshot
    /\ IF NothingPending
       THEN /\ uiLast' = "NoChanges"
            /\ UNCHANGED <<grid, uiPc>>
            /\ NoEngineCall
       ELSE /\ UpdateCompleteTable(CurrentTableName, TRUE, fault)
            /\ uiLast' = "UpdateInvoked"
            /\ uiPc' = "Update"
    /\ UNCHANGED <<WindowFilePath, CurrentTableName, modeVars,
                   HasUnsavedChanges, comboItems, comboIndex, buttonsEnabled,
                   editTriggers, gridTable, baseline>>

\* Mutant: a failed save resets the modes as a successful one does.
FailedSaveResets ==
    /\ ResetToggleButtons
    /\ UNCHANGED <<engineVars, HasUnsavedChanges, gridTable, baseline>>

\* Lines 371-373 of OnUpdateButtonClicked: a failed save shows a message.
FailedSave ==
    UNCHANGED <<engineVars, modeVars, editTriggers, HasUnsavedChanges,
                gridTable, baseline>>

\* Mutant: after a successful save the grid is left as it was committed.
ReloadSkipped(t, pragmaFault, selectFault) ==
    /\ UNCHANGED engineVars
    /\ UNCHANGED gridTable
    /\ baseline' = grid

\* Line 369 of OnUpdateButtonClicked: the grid is loaded again from the
\* file.
Reload(t, pragmaFault, selectFault) ==
    WindowLoadTableData(t, pragmaFault, selectFault, grid)

\* MainWindow::OnUpdateButtonClicked once UpdateCompleteTable has returned
\* (lines 364-373).
UpdateReturned(pragmaFault, selectFault) ==
    /\ uiPc = "Update"
    /\ pc = "Idle"
    /\ IF last.kind = "Ok"
       THEN /\ ResetToggleButtons
            /\ Reload(CurrentTableName, pragmaFault, selectFault)
            /\ HasUnsavedChanges' = FALSE
            /\ uiLast' = "UpdateSucceeded"
       ELSE /\ FailedSave
            /\ uiLast' = "UpdateFailed"
    /\ uiPc' = "Ready"
    /\ UNCHANGED <<WindowFilePath, CurrentTableName, comboItems, comboIndex,
                   buttonsEnabled, atClick>>

\* MainWindow::OnCancelButtonClicked with the user's answer to the
\* confirmation dialog (not shown when nothing is pending: "No changes to
\* discard").
OnCancelButtonClicked(confirmed, pragmaFault, selectFault) ==
    /\ uiPc = "Ready"
    /\ buttonsEnabled
    /\ IF ~NothingPending /\ confirmed
       THEN /\ ResetToggleButtons
            /\ WindowLoadTableData(CurrentTableName, pragmaFault,
                                   selectFault, baseline)
            /\ HasUnsavedChanges' = FALSE
       ELSE /\ UNCHANGED <<modeVars, editTriggers, HasUnsavedChanges, grid,
                           gridTable, baseline>>
            /\ NoEngineCall
    /\ Handled
    /\ UNCHANGED <<WindowFilePath, CurrentTableName, comboItems, comboIndex,
                   buttonsEnabled, uiPc>>

\* A step of the UpdateCompleteTable that Update has called.
WindowCommitStep ==
    /\ uiPc = "Update"
    /\ UNCHANGED windowVars

NextWindow ==
    \/ /\ \E path \in Paths : OnChooseFileClicked(path)
       /\ UNCHANGED instanceVars
    \/ /\ OnLoadFileClicked
       /\ UNCHANGED instanceVars
    \/ /\ LoadFileCall(FALSE, FALSE, FALSE)
       /\ UNCHANGED instanceVars
    \/ /\ \E i \in 1..Len(comboItems) : OnTableSelectionChanged(i, FALSE, FALSE)
       /\ UNCHANGED instanceVars
    \/ /\ OnAddButtonClicked
       /\ UNCHANGED instanceVars
    \/ /\ OnDeleteButtonClicked
       /\ UNCHANGED instanceVars
    \/ /\ OnEditButtonClicked
       /\ UNCHANGED instanceVars
    \/ /\ \E r \in 1..MaxGridRows : \E confirmed \in BOOLEAN :
             OnRowDoubleClicked(r, confirmed)
       /\ UNCHANGED instanceVars
    \/ /\ \E r \in 1..MaxGridRows : \E c \in EditColumns :
             \E text \in EditTexts :
             EditCell(r, c, text)
       /\ UNCHANGED instanceVars
    \/ /\ OnUpdateButtonClicked(FALSE)
       /\ UNCHANGED instanceVars
    \/ /\ \E f1, f2 \in BOOLEAN : UpdateReturned(f1, f2)
       /\ UNCHANGED instanceVars
    \/ /\ \E confirmed \in BOOLEAN : OnCancelButtonClicked(confirmed, FALSE, FALSE)
       /\ UNCHANGED instanceVars
    \/ /\ DeleteAll(FALSE)
       /\ WindowCommitStep
       /\ UNCHANGED instanceVars
    \/ /\ ResolveColumns([n \in 1..columnCount(grid) |-> FALSE])
       /\ WindowCommitStep
       /\ UNCHANGED instanceVars
    \/ /\ PrepareInsert(FALSE)
       /\ WindowCommitStep
       /\ UNCHANGED instanceVars
    \/ /\ InsertRow(FALSE, FALSE)
       /\ WindowCommitStep
       /\ UNCHANGED instanceVars
    \/ /\ Commit(FALSE)
       /\ WindowCommitStep
       /\ UNCHANGED instanceVars

SpecWindow == Init /\ [][NextWindow]_vars

(***************************************************************************)
(* Several SQLWorker objects in one process.  Each keeps a handle          *)
(* (SqlDatabase) on the connection it registered under its ConnectionName  *)
(* in QSqlDatabase's process-wide registry; removing a name from the       *)
(* registry invalidates the handle of whoever registered it.               *)
(***************************************************************************)
\* QUuid::createUuid(): a value that was not returned before.
CreateUuid == Uuids \ issued

\* QSqlDatabase::contains(name).
Contains(name) == registry[name] # 0

\* The objects after "if (SqlDatabase.isOpen()) SqlDatabase.close()" of
\* instance i.
CloseOwn(ws, i) == [ws EXCEPT ![i].isOpen = FALSE]

\* The objects after "if (contains(name)) removeDatabase(name)": the
\* connection registered under the name stops working.
RemoveDatabase(ws, name) ==
    IF Contains(name)
    THEN [ws EXCEPT ![registry[name]].isOpen = FALSE]
    ELSE ws

\* SQLWorker::SQLWorker.
Construct(i) ==
    /\ workers[i].state = "none"
    /\ \E uuid \in CreateUuid :
          /\ workers' = [workers EXCEPT
                            ![i] = NewWorker(GenerateConnectionName(uuid))]
          /\ issued' = issued \cup {uuid}
    /\ actor' = i
    /\ UNCHANGED registry

\* SQLWorker::LoadSQLFile of instance i, as far as connections go.
WorkerLoadSQLFile(i, path, openFault, validateFault) ==
    /\ workers[i].state = "alive"
    /\ actor' = i
    /\ UNCHANGED issued
    /\ IF path = ""
       THEN UNCHANGED <<workers, registry>>
       ELSE LET name    == workers[i].ConnectionName
                removed == RemoveDatabase(CloseOwn(workers, i), name)
                opens   == /\ OpenSucceeds(path, openFault)
                           /\ ValidateDatabaseConnection(TRUE, validateFault)
            IN  /\ registry' = [registry EXCEPT ![name] = i]
                /\ workers' = [removed EXCEPT
                                  ![i].isOpen = opens,
                                  ![i].FileLoaded = @ \/ opens]

\* SQLWorker::~SQLWorker of instance i.
WorkerDestroy(i) ==
    /\ workers[i].state = "alive"
    /\ actor' = i
    /\ UNCHANGED issued
    /\ LET name    == workers[i].ConnectionName
           removed == RemoveDatabase(CloseOwn(workers, i), name)
       IN  /\ registry' = [registry EXCEPT ![name] = 0]
           /\ workers' = [removed EXCEPT ![i].state = "gone"]

NextInstances ==
    \/ /\ \E i \in Instances : Construct(i)
       /\ UNCHANGED <<engineVars, windowVars>>
    \/ /\ \E i \in Instances : \E path \in Paths : \E f1, f2 \in BOOLEAN :
             WorkerLoadSQLFile(i, path, f1, f2)
       /\ UNCHANGED <<engineVars, windowVars>>
    \/ /\ \E i \in Instances : WorkerDestroy(i)
       /\ UNCHANGED <<engineVars, windowVars>>

SpecInstances == Init /\ [][NextInstances]_vars

\* One step of the UpdateCompleteTable that is running.
CommitStep ==
    /\ \/ \E f \in BOOLEAN : DeleteAll(f)
       \/ \E faults \in [1..columnCount(grid) -> BOOLEAN] :
             ResolveColumns(faults)
       \/ \E f \in BOOLEAN : PrepareInsert(f)
       \/ \E f1, f2 \in BOOLEAN : InsertRow(f1, f2)
       \/ \E f \in BOOLEAN : Commit(f)
    /\ UNCHANGED <<windowVars, instanceVars>>

\* UpdateCompleteTable runs on the calling thread and every statement it
\* issues returns: a call that has started takes its next step.
SpecFaultsFair == SpecFaults /\ WF_vars(CommitStep)

(***************************************************************************)
(* Properties.                                                             *)
(***************************************************************************)
\* The last call was an UpdateCompleteTable and it has returned.
CommitReturned == pc = "Idle" /\ last.op = "Commit"

\* The column names a commit of grid g to table t writes, when the catalog
\* answers.
ExpectedNames(g, t) ==
    [n \in 1..columnCount(g) |->
        IF g.headers[n].has THEN g.headers[n].text
        ELSE IF n <= Len(SchemaColumns(t)) THEN SchemaColumns(t)[n]
        ELSE ColumnPlaceholder(n)]

\* The rows a successful commit of grid g leaves in table t: one per grid
\* row, in grid order, each cell stored in the column its name designates.
ExpectedStored(g, t) ==
    [r \in 1..rowCount(g) |->
        StoredRow(t, ExpectedNames(g, t), BoundRow(g, r))]

\* C1 (as stated): when UpdateCompleteTable returns, the durable content of
\* the target table is its content before the call (failure) or exactly the
\* rows of the supplied grid, cell text for cell text, in grid order
\* (success).
C1_ContentIsPreOrGrid ==
    CommitReturned =>
        IF last.kind = "Ok"
        THEN RowTexts(durable[last.table]) = GridTexts(grid)
        ELSE durable = pre

\* C1 (amended): when UpdateCompleteTable returns, the durable content is
\* the content before the call (failure), or (success) every other table is
\* untouched and the target table holds exactly one row per grid row, in
\* grid order, each cell stored under the column its resolved name designates
\* with that column's type affinity applied, unnamed columns NULL.  No
\* emptied or partly refilled table is durable at any time.
C1_AtomicReplace ==
    /\ pc # "Idle" => durable = pre
    /\ CommitReturned =>
        IF last.kind = "Ok"
        THEN /\ durable[last.table] = ExpectedStored(grid, last.table)
             /\ \A u \in DOMAIN durable :
                    u # last.table => durable[u] = pre[u]
        ELSE durable = pre

\* C1 witness: a commit that failed at its second insert, after the table
\* had been emptied and partly refilled, has returned.
C1_Witness ==
    /\ CommitReturned
    /\ last.kind = "InsertFailed"
    /\ last.row = 1
    /\ pre[last.table] # <<>>

\* The last call was a LoadTableData that followed the return of an
\* UpdateCompleteTable on the same table with the given outcome.
LoadedAfter(kind) == pc = "Idle" /\ last.op = "Load" /\ last.after = kind

\* C2 (as stated): a LoadTableData that immediately follows a successful
\* UpdateCompleteTable of grid g on the same table succeeds and produces a
\* grid with as many rows as g, in the same order, every cell text equal to
\* the corresponding cell of g.
C2_LoadEqualsGrid ==
    (LoadedAfter("Ok") /\ last.widget) =>
        /\ last.kind = "Ok"
        /\ rowCount(grid) = rowCount(gridBefore)
        /\ GridTexts(grid) = GridTexts(gridBefore)

\* C2 (amended): such a load succeeds and produces a grid whose columns are
\* the catalog columns of the table and whose rows are, one per row of g and
\* in the same order, the texts of the stored values: the cell under a
\* catalog column is the text of g's cell in the column resolved to that
\* name, after the column's type affinity, and empty where g names no such
\* column.
C2_LoadRendersStored ==
    (LoadedAfter("Ok") /\ last.widget) =>
        LET t      == last.table
            stored == ExpectedStored(gridBefore, t)
        IN  /\ last.kind = "Ok"
            /\ rowCount(grid) = rowCount(gridBefore)
            /\ grid.headers = [c \in 1..Len(SchemaColumns(t)) |->
                                  HeaderItem(SchemaColumns(t)[c])]
            /\ grid.rows = [r \in 1..rowCount(gridBefore) |->
                               [c \in 1..Len(SchemaColumns(t)) |->
                                   IF stored[r][c].t = "null"
                                   THEN NullTextItem
                                   ELSE Item(stored[r][c].s)]]

\* C2 witness: a two-row grid was committed and loaded back, and a cell text
\* came back changed.
C2_Witness ==
    /\ LoadedAfter("Ok")
    /\ last.kind = "Ok"
    /\ rowCount(grid) = 2
    /\ GridTexts(grid) # GridTexts(gridBefore)

\* The INSERT statements executed by the last call, in order.
InsertEntries == SelectSeq(log, LAMBDA e : e.op = "INSERT")

\* The number of statements of the given kind issued by the last call.
Issued(op) == Cardinality({i \in 1..Len(log) : log[i].op = op})

CommitPaths == {"Ok", "InvalidRequest", "TransactionUnavailable",
                "DeleteFailed", "PrepareFailed", "InsertFailed",
                "CommitFailed"}
CommitRows == -1..(MaxRows - 1)

C4_RoundTripSucceeds ==
    (CommitReturned /\ last.after = "Load" /\ last.widget) =>
        /\ last.kind = "Ok"
        /\ RowTexts(durable[last.table]) = RowTexts(pre[last.table])

\* C5 (as stated): UpdateCompleteTable on a name that is not in
\* GetTableNames fails with InvalidRequest before any storage interaction.
C5_UnknownTableRejected ==
    (CommitReturned /\ last.widget /\ dbOpen
       /\ last.table \notin Range(GetTableNames)) =>
        /\ last.kind = "InvalidRequest"
        /\ log = <<>>
        /\ durable = pre

\* C6: an UpdateCompleteTable whose precondition is violated (connection
\* not open, empty table name, no widget) returns InvalidRequest with no
\* statement issued, no transaction begun and nothing changed; a call that
\* is running has passed every precondition.
C6_PreconditionFailureTouchesNothing ==
    /\ (CommitReturned /\ (~dbOpen \/ last.table = "" \/ ~last.widget)) =>
          /\ last.kind = "InvalidRequest"
          /\ log = <<>>
          /\ ~inTxn
          /\ db = durable
          /\ durable = pre
    /\ pc # "Idle" => (dbOpen /\ callTable # "" /\ last.widget)

\* C6 witness: a commit on a real table was refused while the file-loaded
\* flag was still set and the connection closed by a later failed open.
C6_Witness ==
    /\ CommitReturned
    /\ FileLoaded
    /\ ~dbOpen
    /\ last.table = UserTable
    /\ last.widget
    /\ last.kind = "InvalidRequest"

\* C7: between engine operations no transaction is open, and a call that
\* returns after its transaction was begun has issued exactly one rollback
\* and no successful commit (failure) or exactly one commit, successful, and
\* no rollback (success), as its last statement.
C7_NoTransactionLeftOpen ==
    /\ pc = "Idle" => ~inTxn
    /\ (CommitReturned
          /\ last.kind \notin {"InvalidRequest", "TransactionUnavailable"}) =>
          /\ last.kind \in {"Ok", "DeleteFailed", "PrepareFailed",
                            "InsertFailed", "CommitFailed"}
          /\ IF last.kind = "Ok"
             THEN /\ log[Len(log)].op = "COMMIT"
                  /\ Issued("COMMIT") = 1
                  /\ Issued("ROLLBACK") = 0
             ELSE /\ log[Len(log)].op = "ROLLBACK"
                  /\ Issued("ROLLBACK") = 1
                  /\ Issued("COMMIT") =
                        (IF last.kind = "CommitFailed" THEN 1 ELSE 0)

\* C7 witness: a call whose commit failed after two inserts has returned.
C7_Witness ==
    /\ CommitReturned
    /\ last.kind = "CommitFailed"
    /\ Issued("INSERT") = 2

\* C8 (as stated): every statement with a table name in it is issued for a
\* name in the table list of the open connection.
C8_StatementsOnlyForListedTables ==
    \A i \in 1..Len(log) :
        log[i].table # "" => log[i].table \in Range(GetTableNames)

\* C9 (as stated): every column name placed into the INSERT statement is a
\* catalog column of the target table.
C9_InsertColumnsInCatalog ==
    \A i \in 1..Len(log) :
        log[i].op \in {"PREPARE", "INSERT"} =>
            \A j \in 1..Len(log[i].columns) :
                log[i].columns[j] \in Range(SchemaColumns(log[i].table))

\* C10: the names UpdateCompleteTable writes are, per grid column, the
\* header label if there is one, else the catalog's column at that position
\* if there is one, else Column_<position>; one name per grid column; the
\* catalog is consulted before the first insert and at most once per
\* column, and every prepared and executed INSERT of the call carries the
\* same list.
C10_ColumnNamesResolvedOnce ==
    /\ pc \in {"ColumnsResolved", "Inserting"} =>
          /\ Len(columnNames) = columnCount(grid)
          /\ \A n \in 1..columnCount(grid) :
                 columnNames[n] =
                    IF grid.headers[n].has THEN grid.headers[n].text
                    ELSE IF n <= Len(SchemaColumns(callTable))
                         THEN SchemaColumns(callTable)[n]
                    ELSE ColumnPlaceholder(n)
    /\ \A i \in 1..Len(log) :
          log[i].op \in {"PREPARE", "INSERT"} =>
              log[i].columns = ExpectedNames(grid, log[i].table)
    /\ \A i, j \in 1..Len(log) :
          (log[i].op = "PRAGMA" /\ log[j].op \in {"PREPARE", "INSERT"})
              => i < j
    /\ last.op = "Commit" =>
          Issued("PRAGMA") <= columnCount(grid)

\* C10 witness: two rows have been inserted under a list whose first name
\* came from the catalog and whose second came from the header.
C10_Witness ==
    /\ pc = "Inserting"
    /\ row = 2
    /\ columnCount(grid) = 2
    /\ ~grid.headers[1].has
    /\ grid.headers[2].has
    /\ columnNames = <<"id", "name">>

\* The text bound for cell (r, c) of grid g, 1-based.
CellText(g, r, c) == IF g.rows[r][c].item THEN g.rows[r][c].s ELSE <<>>

\* C11: the statements of one UpdateCompleteTable come in the order BEGIN,
\* DELETE, column look-ups, then per grid row 0, 1, ... a prepare and an
\* INSERT of that row's cells, then COMMIT.  An INSERT is issued only after
\* the DELETE succeeded, COMMIT only after an INSERT of every grid row
\* succeeded, and a successful call stores as many rows as the grid has.
C11_StepsInFixedOrder ==
    last.op = "Commit" =>
        /\ Len(log) >= 1 => log[1].op = "BEGIN"
        /\ \A i \in 1..Len(log) :
              /\ log[i].op = "BEGIN" => i = 1
              /\ log[i].op = "DELETE" => i = 2
              /\ log[i].op \in {"PRAGMA", "PREPARE", "INSERT", "COMMIT"} =>
                    /\ i > 2
                    /\ log[2].op = "DELETE"
                    /\ log[3].op # "ROLLBACK"
              /\ log[i].op = "PRAGMA" =>
                    \A j \in 1..Len(log) :
                        log[j].op \in {"PREPARE", "INSERT", "COMMIT"} => i < j
              /\ log[i].op = "INSERT" =>
                    /\ log[i - 1].op = "PREPARE"
                    /\ \A j \in 1..Len(log) : log[j].op = "COMMIT" => i < j
              /\ log[i].op = "COMMIT" =>
                    /\ Issued("INSERT") = rowCount(grid)
                    /\ \A j \in 1..(i - 1) : log[j].op # "ROLLBACK"
        /\ Len(InsertEntries) <= rowCount(grid)
        /\ \A k \in 1..Len(InsertEntries) :
              InsertEntries[k].values =
                  [c \in 1..columnCount(grid) |->
                      IF grid.rows[k][c].item /\ grid.rows[k][c].null
                      THEN NullValue
                      ELSE TextValue(CellText(grid, k, c))]
        /\ pc = "Inserting" => Len(InsertEntries) = row
        /\ (pc = "Idle" /\ last.kind = "Ok") =>
              Len(durable[last.table]) = rowCount(grid)

\* C11 witness: a call that inserted two different rows has committed.
C11_Witness ==
    /\ CommitReturned
    /\ last.kind = "Ok"
    /\ Len(InsertEntries) = 2
    /\ InsertEntries[1].values # InsertEntries[2].values

\* C12: an UpdateCompleteTable whose transaction could not be started has
\* issued the begin and nothing else, left the content as it was and
\* returned; a call that goes on past the begin has its transaction open.
C12_NoTransactionNoStatement ==
    /\ (CommitReturned /\ last.kind = "TransactionUnavailable") =>
          /\ log = <<Entry("BEGIN", "", <<>>, <<>>)>>
          /\ ~inTxn
          /\ db = durable
          /\ durable = pre
    /\ pc # "Idle" => inTxn

\* C12 witness: a call on a loaded table with an open connection has been
\* refused its transaction.
C12_Witness ==
    /\ CommitReturned
    /\ last.kind = "TransactionUnavailable"
    /\ last.table = UserTable
    /\ dbOpen
    /\ rowCount(grid) > 0

\* The statement whose failure each failure outcome inside the transaction
\* reports.
FailedStatement(kind) ==
    CASE kind = "DeleteFailed"  -> "DELETE"
      [] kind = "PrepareFailed" -> "PREPARE"
      [] kind = "InsertFailed"  -> "INSERT"
      [] kind = "CommitFailed"  -> "COMMIT"
      [] OTHER                  -> "NONE"

\* C13: within one UpdateCompleteTable the begin, the DELETE and the commit
\* are attempted at most once and each grid row's INSERT is executed at most
\* once; the rollback that follows the first failing statement is the last
\* statement of the call, it follows that statement directly, and the call
\* returns the failure.
C13_NoStepRetried ==
    last.op = "Commit" =>
        /\ Issued("BEGIN") <= 1
        /\ Issued("DELETE") <= 1
        /\ Issued("COMMIT") <= 1
        /\ Issued("ROLLBACK") <= 1
        /\ Issued("INSERT") <= rowCount(grid)
        /\ pc = "Inserting" => Issued("INSERT") = row
        /\ \A i \in 1..Len(log) :
              log[i].op = "ROLLBACK" =>
                  /\ i = Len(log)
                  /\ pc = "Idle"
                  /\ FailedStatement(last.kind) # "NONE"
                  /\ log[i - 1].op = FailedStatement(last.kind)
                  /\ last.kind = "InsertFailed" =>
                        Issued("INSERT") = last.row + 1
        /\ (pc = "Idle" /\ FailedStatement(last.kind) # "NONE") =>
              log[Len(log)].op = "ROLLBACK"

\* C13 witness: the INSERT of the second row failed and the call returned
\* after two INSERTs and one rollback.
C13_Witness ==
    /\ CommitReturned
    /\ last.kind = "InsertFailed"
    /\ last.row = 1
    /\ Issued("INSERT") = 2
    /\ Issued("ROLLBACK") = 1

\* The position of the first statement of the given kind in the log of the
\* last call (0 when there is none).
FirstIssued(op) ==
    IF Issued(op) = 0 THEN 0
    ELSE CHOOSE i \in 1..Len(log) :
            log[i].op = op /\ \A j \in 1..(i - 1) : log[j].op # op

\* C14: the instance never has more than one open connection, the member
\* connection being the open one if any; and a LoadSQLFile with a non-empty
\* path first closes the connection if it is open, then removes its name
\* from the registry if it is there, and only then registers and opens the
\* new one, whatever the outcome of the new open.
C14_OneConnectionTornDownFirst ==
    /\ [](/\ openConnections \in {0, 1}
          /\ dbOpen <=> openConnections = 1)
    /\ [][(last'.op = "Open" /\ last'.kind # "InvalidRequest") =>
             /\ Issued("ADD")' = 1
             /\ Issued("OPEN")' = 1
             /\ FirstIssued("OPEN")' = FirstIssued("ADD")' + 1
             /\ dbOpen <=> log'[1].op = "CLOSE"
             /\ registered <=> Issued("REMOVE")' = 1
             /\ \A i \in 1..(FirstIssued("ADD")' - 1) :
                    log'[i].op \in {"CLOSE", "REMOVE"}
             /\ \A i, j \in 1..(FirstIssued("ADD")' - 1) :
                    (log'[i].op = "CLOSE" /\ log'[j].op = "REMOVE") => i < j
             /\ registered'
             /\ openConnections' =
                    (IF last'.kind = "Ok" THEN 1 ELSE 0)]_vars

\* C14 witness: an open that failed has closed and discarded the connection
\* an earlier open had made.
C14_Witness ==
    /\ last.op = "Open"
    /\ last.kind = "OpenFailed"
    /\ FileLoaded
    /\ Len(log) >= 2
    /\ log[1].op = "CLOSE"
    /\ log[2].op = "REMOVE"
    /\ openConnections = 0

\* C15 (as stated): whenever the connection of the instance is not open, its
\* name is not in the connection registry.
C15_ClosedMeansDeregistered == ~dbOpen => ~registered

\* C16 (as stated): GetTableNames returns the empty list whenever the
\* instance has no open connection.
C16_NoConnectionNoTables == ~dbOpen => GetTableNames = <<>>

\* A name that begins with the prefix the storage engine reserves for its
\* own tables, "sqlite_".
HasSystemPrefix(chars) ==
    /\ Len(chars) >= 7
    /\ SubSeq(chars, 1, 7) = <<"s", "q", "l", "i", "t", "e", "_">>

\* The user-defined tables of the file, in the file's order.
UserTablesOfFile ==
    SelectSeq(FileTables, LAMBDA t : ~HasSystemPrefix(Spelling(t)))

\* C17 (as stated): while the connection a successful LoadSQLFile made is
\* open, GetTableNames is exactly the user-defined tables of the file, each
\* once, and no table whose name begins with the system prefix.
C17_ListIsUserTables ==
    dbOpen =>
        /\ Range(GetTableNames) = Range(UserTablesOfFile)
        /\ Len(GetTableNames) = Cardinality(Range(GetTableNames))
        /\ \A i \in 1..Len(GetTableNames) :
              ~HasSystemPrefix(Spelling(GetTableNames[i]))

\* C18: the cached table list changes only in a step that is a successful
\* LoadSQLFile; that step executes the metadata query twice and leaves the
\* list its second execution yields, or the empty list if that failed;
\* every other
\* operation, a failed LoadSQLFile included, leaves the list as it was.
C18_ListChangesOnlyOnOpen ==
    /\ [][AvailableTableNames' # AvailableTableNames =>
             (last'.op = "Open" /\ last'.kind = "Ok")]_vars
    /\ [][(last'.op \in {"Load", "Commit", "AddRow", "DeleteRow", "Save",
                          "Destroy"}
            \/ (last'.op = "Open" /\ last'.kind # "Ok")) =>
             AvailableTableNames' = AvailableTableNames]_vars
    /\ []((last.op = "Open" /\ last.kind = "Ok") =>
             /\ Issued("TABLES") + Issued("TABLES_ERROR") = 2
             /\ log[Len(log)].op \in {"TABLES", "TABLES_ERROR"}
             /\ AvailableTableNames =
                   IF log[Len(log)].op = "TABLES_ERROR" THEN <<>>
                   ELSE SelectSeq(FileTables,
                                  LAMBDA t : ~LikeSystemPattern(Spelling(t))))
    /\ []((last.op = "Open" /\ last.kind # "Ok") =>
             Issued("TABLES") + Issued("TABLES_ERROR") = 0)

\* C18 witness: a LoadSQLFile whose metadata query failed has succeeded and
\* left the list empty.
C18_Witness ==
    /\ last.op = "Open"
    /\ last.kind = "Ok"
    /\ Issued("TABLES_ERROR") = 1
    /\ FileLoaded
    /\ dbOpen
    /\ AvailableTableNames = <<>>

\* C19: a step of LoadTableData, whatever its outcome, leaves the content
\* of every table, durable and as the connection sees it, as it was, and
\* begins no transaction; the statements it issues are the column look-up
\* and the SELECT.
C19_LoadNeverWrites ==
    /\ [][last'.op = "Load" =>
             /\ durable' = durable
             /\ db' = db
             /\ ~inTxn'
             /\ last'.kind \in {"Ok", "SchemaUnavailable", "QueryFailed",
                                "InvalidRequest"}]_vars
    /\ [](last.op = "Load" =>
             \A i \in 1..Len(log) : log[i].op \in {"PRAGMA", "SELECT"})

\* C19 witness: a load has filled the widget with the two rows of a table.
C19_Witness ==
    /\ last.op = "Load"
    /\ last.kind = "Ok"
    /\ rowCount(grid) = 2
    /\ Len(durable[last.table]) = 2

\* C20: a LoadTableData that finds no columns for its table returns
\* SchemaUnavailable having issued the column look-up only, and leaves the
\* widget as it was; a table the file does not have always ends so; the
\* SELECT is only issued for a table that has columns, and a load that
\* succeeds shows at least one column.
C20_NoColumnsNoSelect ==
    last.op = "Load" =>
        /\ last.kind = "SchemaUnavailable" =>
              /\ log = <<Entry("PRAGMA", last.table, <<>>, <<>>)>>
              /\ grid = gridBefore
        /\ (last.widget /\ FileLoaded /\ dbOpen /\ last.table # ""
              /\ SchemaColumns(last.table) = <<>>) =>
              last.kind = "SchemaUnavailable"
        /\ Issued("SELECT") > 0 =>
              /\ SchemaColumns(last.table) # <<>>
              /\ last.kind \in {"Ok", "QueryFailed"}
        /\ last.kind = "Ok" =>
              /\ columnCount(grid) >= 1
              /\ Issued("SELECT") = 1

\* C20 witness: the column look-up of a table of the file failed and the
\* load ended SchemaUnavailable.
C20_Witness ==
    /\ last.op = "Load"
    /\ last.kind = "SchemaUnavailable"
    /\ last.table = UserTable
    /\ dbOpen

\* The last call was a LoadTableData and it succeeded.
LoadSucceeded == pc = "Idle" /\ last.op = "Load" /\ last.kind = "Ok"

\* C21: a successful LoadTableData of table t leaves the grid with one row
\* per stored row of t, in stored order and with the stored values' texts,
\* every row as wide as the catalog column list of t, and with that list as
\* header labels, whatever rows and columns the grid held before the call;
\* a table with no rows gives no rows under the full headers.
C21_LoadShapesGrid ==
    LoadSucceeded =>
        LET t == last.table
        IN  /\ rowCount(grid) = Len(db[t])
            /\ GridTexts(grid) = RowTexts(db[t])
            /\ grid.headers =
                   [c \in 1..Len(SchemaColumns(t)) |->
                       HeaderItem(SchemaColumns(t)[c])]
            /\ \A r \in 1..rowCount(grid) :
                   Len(grid.rows[r]) = Len(SchemaColumns(t))

\* C21 witness: a table emptied by a commit was loaded into a grid that held
\* more rows and more columns than the table has; the grid came out with no
\* rows and the two headers of the table.
C21_Witness ==
    /\ LoadSucceeded
    /\ last.table = UserTable
    /\ db[UserTable] = <<>>
    /\ rowCount(gridBefore) = MaxRows
    /\ columnCount(gridBefore) = MaxCols
    /\ rowCount(grid) = 0
    /\ columnCount(grid) = 2

\* C27: every INSERT that UpdateCompleteTable executes for a grid row carries
\* as many values as its statement has columns (placeholders), and that is
\* the grid's column count; value j is the text of cell j of the row; a cell
\* without an item is bound as the empty text in its own place, so no later
\* value moves to the left.
C27_OneValuePerPlaceholder ==
    last.op = "Commit" =>
        \A k \in 1..Len(InsertEntries) :
            LET e == InsertEntries[k]
            IN  /\ Len(e.values) = Len(e.columns)
                /\ Len(e.values) = columnCount(grid)
                /\ \A j \in 1..columnCount(grid) :
                      /\ e.values[j].s = CellText(grid, k, j)
                      /\ ~grid.rows[k][j].item => e.values[j] = TextValue(<<>>)

\* C27 witness: a committed row whose first cell has no item and whose
\* second cell holds a text was inserted with the empty text first and the
\* second cell's text second.
C27_Witness ==
    /\ CommitReturned
    /\ last.kind = "Ok"
    /\ Len(InsertEntries) >= 1
    /\ columnCount(grid) = 2
    /\ ~grid.rows[1][1].item
    /\ grid.rows[1][2].s # <<>>
    /\ InsertEntries[1].values =
          <<TextValue(<<>>), TextValue(grid.rows[1][2].s)>>

\* C28: a LoadTableData that fails, for whatever reason (no file loaded,
\* empty table name, no widget, connection closed, no columns found, SELECT
\* failed), leaves the caller's grid as it was when the call started: the
\* same headers, rows and cells.
C28_FailedLoadKeepsGrid ==
    (pc = "Idle" /\ last.op = "Load" /\ last.kind # "Ok") => grid = gridBefore

\* C28 witness: the grid held the two rows of one table when the SELECT of
\* a load of another table failed; it still holds them.
C28_Witness ==
    /\ pc = "Idle"
    /\ last.op = "Load"
    /\ last.kind = "QueryFailed"
    /\ last.table = NotesTable
    /\ rowCount(grid) = 2
    /\ grid.headers = <<HeaderItem("id"), HeaderItem("name")>>

\* C26: every UpdateCompleteTable terminates.  From each of the positions
\* TransactionStarted, Cleared, ColumnsResolved and Inserting the call comes
\* back to Idle with a result of success or failure, and while it runs it
\* has executed at most one INSERT per row of the grid.
C26_CommitTerminates ==
    /\ [](pc # "Idle" => Issued("INSERT") <= rowCount(grid))
    /\ \A position \in {"TransactionStarted", "Cleared", "ColumnsResolved",
                         "Inserting"} :
          (pc = position) ~> (CommitReturned /\ last.kind # "Running")

\* C26 witness: a call went through every position, inserted every row of a
\* grid of MaxRows rows and returned success.
C26_Witness ==
    /\ CommitReturned
    /\ last.kind = "Ok"
    /\ rowCount(grid) = MaxRows
    /\ Issued("INSERT") = MaxRows
    /\ Issued("COMMIT") = 1

\* C23: two SQLWorker objects of one process have different connection
\* names, and a step of one object (a successful or failed LoadSQLFile, its
\* destruction) leaves every other object, whether its connection is open
\* and what the registry holds under its name as they were.
C23_InstancesDoNotCollide ==
    /\ [](\A i, j \in Instances :
            (i # j /\ workers[i].state # "none" /\ workers[j].state # "none")
                => workers[i].ConnectionName # workers[j].ConnectionName)
    /\ [][\A j \in Instances :
            j # actor' =>
               /\ workers'[j] = workers[j]
               /\ workers[j].state # "none" =>
                     registry'[workers[j].ConnectionName] =
                         registry[workers[j].ConnectionName]]_vars

\* C23 witness: one object holds an open, registered connection after the
\* other one, which had opened a file too, was destroyed.
C23_Witness ==
    /\ workers[1].state = "alive"
    /\ workers[1].isOpen
    /\ registry[workers[1].ConnectionName] = 1
    /\ workers[2].state = "gone"
    /\ workers[2].FileLoaded
    /\ actor = 2

\* The header items LoadTableData makes for table t.
CatalogHeaders(t) ==
    [c \in 1..Len(SchemaColumns(t)) |-> HeaderItem(SchemaColumns(t)[c])]

\* C22: once LoadTableData has filled the grid from table t, whatever the
\* user does in the window afterwards (adding and deleting rows, editing
\* cells, switching modes), grid column i carries the header of catalog
\* column i of t and every grid row has as many cells as t has columns.
C22_ColumnsStayAligned ==
    gridTable # "" =>
        /\ grid.headers = CatalogHeaders(gridTable)
        /\ \A r \in 1..rowCount(grid) :
              Len(grid.rows[r]) = Len(SchemaColumns(gridTable))

\* C22 witness: of the two loaded rows of users the first was deleted, a
\* row was added and its first cell edited, and edit mode is on; the two
\* headers stand and both rows have two cells.
C22_Witness ==
    /\ uiPc = "Ready"
    /\ gridTable = UserTable
    /\ IsEditMode
    /\ rowCount(baseline) = 2
    /\ grid.rows = << baseline.rows[2], <<Item(<<"0", "7">>), Item(<<>>)>> >>
    /\ grid.headers = <<HeaderItem("id"), HeaderItem("name")>>

\* C24: UpdateCompleteTable never changes the grid it is given, on success
\* or on failure; and when the commit of an Update click fails, the window
\* is left as the click found it: the same grid, the same mode flags and
\* edit triggers, the same unsaved-changes flag, and no load was made.
C24_FailedSaveLeavesWindow ==
    /\ last.op = "Commit" => grid = gridBefore
    /\ (uiPc = "Ready" /\ uiLast = "UpdateFailed") =>
          /\ Snapshot = atClick
          /\ last.op = "Commit"
          /\ last.kind \notin {"Ok", "Running"}
          /\ Issued("SELECT") = 0

\* C24 witness: in edit mode a cell was changed so that two rows carry the
\* same id; the Update click failed on the second INSERT and the window
\* still shows the edited grid with edit mode on.
C24_Witness ==
    /\ uiPc = "Ready"
    /\ uiLast = "UpdateFailed"
    /\ last.kind = "InsertFailed"
    /\ IsEditMode
    /\ editTriggers = "DoubleClickedOrEditKeyPressed"
    /\ grid # baseline
    /\ durable = pre

\* C25: the user's actions on the window (adding a row, deleting a row by
\* a confirmed double click, editing a cell, switching modes, Cancel) never
\* change what is stored; what is stored changes only while an Update click
\* is inside UpdateCompleteTable.
C25_OnlyUpdateWrites ==
    /\ [](uiPc # "Update" => (pc = "Idle" /\ db = durable))
    /\ [][(durable' # durable \/ db' # db) =>
             (uiPc = "Update" /\ pc # "Idle" /\ last.op = "Commit")]_vars

\* C25 witness: after an Update that changed the stored rows of users, a
\* row was deleted from the grid in delete mode; the stored rows are still
\* those of the Update.
C25_Witness ==
    /\ uiPc = "Ready"
    /\ IsDeleteMode
    /\ HasUnsavedChanges
    /\ gridTable = UserTable
    /\ durable[UserTable] # InitialContent[UserTable]
    /\ rowCount(grid) < rowCount(baseline)
    /\ Len(durable[UserTable]) = rowCount(baseline)

\* C29 (as stated): whenever the window is at rest or Update has called
\* UpdateCompleteTable, a grid that was filled by a load was filled from
\* the table CurrentTableName names.
C29_GridBelongsToCurrentTable ==
    /\ (uiPc = "Ready" /\ gridTable # "") => gridTable = CurrentTableName
    /\ (uiPc = "Update" /\ gridTable # "") => gridTable = last.table

\* C30 (as stated): whenever the grid differs from what was last loaded or
\* committed, the unsaved-changes flag is set or a mode is on, and Update
\* never answers "No changes to save" to a grid that differs.
C30_ChangesAreFlagged ==
    /\ (uiPc = "Ready" /\ grid # baseline) => ~NothingPending
    /\ uiLast = "NoChanges" => atClick.grid = baseline

\* The number of mode flags that are set.
ModesOn ==
    Cardinality({m \in {"add", "del", "edit"} :
                    \/ m = "add" /\ IsAddMode
                    \/ m = "del" /\ IsDeleteMode
                    \/ m = "edit" /\ IsEditMode})

\* C31: whatever the user has clicked (Add, Delete, Edit, Update, Cancel, a
\* table of the combo box, a file load), at most one of IsAddMode,
\* IsDeleteMode and IsEditMode is true, and while all three are false the
\* grid has no edit triggers.
C31_ModesExclusive ==
    /\ ModesOn <= 1
    /\ ModesOn = 0 => editTriggers = "NoEditTriggers"

\* A mode was on, changed the grid, and is off again.
C31_Witness ==
    /\ ModesOn = 0
    /\ HasUnsavedChanges
    /\ rowCount(grid) > 0
    /\ uiPc = "Ready"

\* The grid shows what the file holds of table t: the catalog's columns as
\* headers and one row per stored row, each value as SQLite renders it.
ShowsStored(t) ==
    /\ t \in DOMAIN durable
    /\ db = durable
    /\ grid.headers = CatalogHeaders(t)
    /\ rowCount(grid) = Len(durable[t])
    /\ GridTexts(grid) = RowTexts(durable[t])

\* Update has returned from a save that succeeded.
UpdateSucceeded == uiPc = "Ready" /\ uiLast = "UpdateSucceeded"

\* C32: after an Update click whose commit succeeded the three mode flags
\* are false, the grid has no edit triggers and HasUnsavedChanges is false;
\* the grid shows the content now stored for CurrentTableName if the reload
\* that follows the commit succeeded, and is the grid that was committed if
\* the reload failed.
C32_UpdateSucceeds ==
    UpdateSucceeded =>
        /\ ModesOn = 0
        /\ editTriggers = "NoEditTriggers"
        /\ ~HasUnsavedChanges
        /\ last.op = "Load"
        /\ last.table = CurrentTableName
        /\ IF last.kind = "Ok"
           THEN ShowsStored(CurrentTableName)
           ELSE grid = atClick.grid

\* A save of pending changes succeeded and the grid was reloaded.
C32_Witness ==
    /\ UpdateSucceeded
    /\ last.kind = "Ok"
    /\ ~(atClick.add = FALSE /\ atClick.del = FALSE /\ atClick.edit = FALSE)
    /\ atClick.unsaved
    /\ rowCount(grid) > 0
    /\ ShowsStored(CurrentTableName)

\* C32 as stated: after an Update click whose commit succeeded the grid
\* equals the content stored for CurrentTableName, whatever became of the
\* reload.
C32_GridIsStoredContent ==
    UpdateSucceeded =>
        /\ ModesOn = 0
        /\ editTriggers = "NoEditTriggers"
        /\ ~HasUnsavedChanges
        /\ ShowsStored(CurrentTableName)

\* A Cancel click that the user confirms, with something pending.
DiscardConfirmed ==
    /\ ~NothingPending
    /\ OnCancelButtonClicked(TRUE, FALSE, FALSE)

\* A Cancel click that the user declines, or one with nothing pending.
DiscardRefused ==
    \/ OnCancelButtonClicked(FALSE, FALSE, FALSE)
    \/ NothingPending /\ OnCancelButtonClicked(TRUE, FALSE, FALSE)

\* C33 (as stated): a confirmed Cancel click leaves the grid equal to the
\* content stored for CurrentTableName, all mode flags false and
\* HasUnsavedChanges false, with storage unchanged; a declined Cancel click,
\* or one made with nothing pending, changes neither the grid, the flags nor
\* storage.
C33_CancelDiscards ==
    [][/\ DiscardConfirmed =>
             /\ ShowsStored(CurrentTableName)'
             /\ ModesOn' = 0
             /\ ~HasUnsavedChanges'
             /\ UNCHANGED storageVars
       /\ DiscardRefused =>
             UNCHANGED <<grid, modeVars, editTriggers, HasUnsavedChanges,
                         storageVars>>]_vars

\* The step is a LoadSQLFile call with an empty path, with a non-empty
\* path, or a call of another operation of the living engine.
EmptyPathLoad == last'.op = "Open" /\ last'.kind = "InvalidRequest"
PathLoad      == last'.op = "Open" /\ last'.kind # "InvalidRequest"
OtherCall     == last'.op \notin {"Open", "Destroy"}

\* C34: IsFileLoaded() is false before the first load, is true after a
\* LoadSQLFile call with a non-empty path exactly if the call succeeded, and
\* keeps its value over every later call that is not such a load; a
\* LoadSQLFile call with an empty path returns false and leaves connection,
\* registry entry, table list, file path and loaded flag as they were.
C34_LoadedIffLastLoadSucceeded ==
    /\ ~IsFileLoaded
    /\ [][/\ PathLoad => (IsFileLoaded' <=> last'.kind = "Ok")
          /\ EmptyPathLoad =>
                /\ UNCHANGED <<dbOpen, openConnections, registered,
                               AvailableTableNames, CurrentFilePath,
                               FileLoaded>>
                /\ IsFileLoaded' = IsFileLoaded
          /\ OtherCall => IsFileLoaded' = IsFileLoaded]_vars

\* A file was loaded, and a later load of another path failed: the flag
\* FileLoaded is still set, the connection is closed.  An empty path was
\* refused after that.
C34_Witness ==
    /\ last.op = "Open"
    /\ last.kind = "InvalidRequest"
    /\ FileLoaded
    /\ CurrentFilePath = GoodPath
    /\ ~dbOpen
    /\ registered

\* The step is a DeleteRowFromTable call that returned true.
DeleteRowSucceeded == last'.op = "DeleteRow" /\ last'.kind = "Ok"

\* C35 (as stated): DeleteRowFromTable(t, k) returns true only if it
\* deleted exactly one row of t, the row at 0-based position k; with k at or
\* beyond the number of rows of t it does not return true and leave the
\* table as it was.
C35_TrueOnlyIfRowDeleted ==
    [][DeleteRowSucceeded =>
          LET t == last'.table
              k == last'.row
          IN  /\ k \in 0..(Len(db[t]) - 1)
              /\ Len(db'[t]) = Len(db[t]) - 1
              /\ db'[t] = SubSeq(db[t], 1, k) \o
                          SubSeq(db[t], k + 2, Len(db[t]))
              /\ \A u \in DOMAIN db \ {t} : db'[u] = db[u]]_vars

====
